---- MODULE Spec2Model ----
(***************************************************************************)
(* Model of the UMAP coordinate pipeline of zebra-h2b-audit-v2:            *)
(*   packages/db/populate-umap-coordinates.py   (psycopg2, batched)        *)
(*   visualization-pipeline/run_pipeline.py and steps 01, 02, 03           *)
(*   scripts/embeddings/umap-reduce.py          (psycopg2, one commit)     *)
(* The store is the table embedding_cache; the projection library (UMAP)   *)
(* is an uninterpreted deterministic function of its input matrix.         *)
(***************************************************************************)
EXTENDS Integers, Sequences, FiniteSets, TLC

\* ------------------------------------------------------------------ bounds
\* Number of ids the table can hold.
NumIds == 3
\* Rows per transaction. The source sets BATCH_SIZE = 100
\* (populate-umap-coordinates.py:58); the model scales it down so that a run
\* over NumIds rows has a full batch and a short last batch.
BATCH_SIZE == 2
\* Number of invocations of a script in one behaviour.
MaxRuns == 2
\* Number of step scripts run by hand in one behaviour.
MaxManual == 4

Ids == 1..NumIds

\* ------------------------------------------------------------------ values
\* SQL NULL, and a coordinate value that was in the store before any
\* modelled run.
NULL == <<>>
OLD == <<"old">>

\* The five coordinate columns, in the order of the UPDATE statements.
CoordCols == <<"umap_x_2d", "umap_y_2d", "umap_x_3d", "umap_y_3d", "umap_z_3d">>
CoordColSet == {CoordCols[k] : k \in 1..5}

\* embedding_small of record id: every record has its own vector.
VectorOf(id) == <<"vec", id>>

\* UMAP(n_components = n).fit_transform(matrix)[r][axis]: a deterministic
\* function of the whole matrix (the reduction is joint over all rows), of
\* the row and of the axis; nothing else is known about it.
UmapValue(n, matrix, r, axis) == <<n, axis, matrix, r>>

\* ORDER BY id over a set of ids.
RECURSIVE OrderById(_)
OrderById(S) ==
    IF S = {} THEN <<>>
    ELSE LET m == CHOOSE x \in S : \A y \in S : x <= y
         IN  <<m>> \o OrderById(S \ {m})

Range(s) == {s[k] : k \in 1..Len(s)}

Min(a, b) == IF a <= b THEN a ELSE b

\* ------------------------------------------------------------------ state
VARIABLES
    db,       \* committed rows of embedding_cache: id -> row
    cols,     \* coordinate columns the table has (committed)
    ddlLock,  \* the process whose open transaction holds the table's
              \* ACCESS EXCLUSIVE lock, 0 when none does
    pop,      \* populate-umap-coordinates.py: process -> state of its main()
    files,    \* visualization-pipeline/data: the files the steps hand over
    s3,       \* 03_update_database.py: process -> state of its main()
    red,      \* umap-reduce.py: process -> state of its main()
    tsv,      \* scripts/embeddings/tsv_export: the files umap-reduce.py writes
    s1,       \* 01_extract_embeddings.py: state of its main()
    s2,       \* 02_reduce_with_umap.py: state of its main()
    s4,       \* 04_export_tsv.py: state of the process
    pipe,     \* run_pipeline.py: state of its main()
    wr,       \* a coordinate writer applied on its own: its arguments
    audit,    \* the verification tools: the last tool run and its report
    meta      \* the text columns of embedding_cache: id -> value,
              \* source_table, source_column, usage_count

vars == <<db, cols, ddlLock, pop, files, s3, red, tsv, s1, s2, s4, pipe, wr, audit, meta>>

\* What the actions of one script leave alone besides the table.
notPop == <<ddlLock, files, s3, red, tsv, s1, s2, s4, pipe, wr, audit, meta>>
notS3 == <<ddlLock, pop, red, tsv, s1, s2, s4, wr, audit, meta>>
notRed == <<pop, files, s3, s1, s2, s4, pipe, wr, audit, meta>>
notS1 == <<db, cols, ddlLock, pop, s3, red, tsv, s2, s4, wr, audit, meta>>
notS2 == <<db, cols, ddlLock, pop, s3, red, tsv, s1, s4, wr, audit, meta>>
notS4 == <<db, cols, ddlLock, pop, files, s3, red, tsv, s1, s2, wr, audit, meta>>
notPipe == <<db, cols, ddlLock, pop, files, s3, red, tsv, s1, s2, s4, wr, audit, meta>>
notWr == <<cols, ddlLock, pop, files, s3, red, tsv, s1, s2, s4, pipe, audit, meta>>

\* A stored vector whose text is no list of numbers (float(x) and json.loads
\* raise on it), and one that parses but has fewer components than the rest.
MalformedVector(id) == <<"text", id>>
TruncatedVector(id) == <<"vec", id, "truncated">>

\* [float(x) for x in vector_str_clean.split(',')] / json.loads succeed.
Parses(v) == v[1] = "vec"

\* np.array(embeddings, dtype=np.float32) and np.vstack need rows of one
\* length.
Stackable(vectors) ==
    \A a, b \in 1..Len(vectors) : Len(vectors[a]) = Len(vectors[b])

\* Fault model: UMAP without random_state. The projection of the same matrix
\* differs from one run of umap-reduce.py to the next.
FitTransformUnseeded(n, matrix) ==
    [r \in 1..Len(matrix) |->
        [axis \in 1..n |-> UmapValue(n, matrix, r, axis) \o <<red[1].runs>>]]

\* fit_transform(matrix) as an N x n array (random_state is fixed in every
\* script).
FitTransform(n, matrix) ==
    [r \in 1..Len(matrix) |-> [axis \in 1..n |-> UmapValue(n, matrix, r, axis)]]

\* A row: the vector, the text columns, the five coordinate columns.
Row(emb, c) ==
    [embedding_small |-> emb, umap_x_2d |-> c[1], umap_y_2d |-> c[2],
     umap_x_3d |-> c[3], umap_y_3d |-> c[4], umap_z_3d |-> c[5]]

Coords(row) ==
    <<row.umap_x_2d, row.umap_y_2d, row.umap_x_3d, row.umap_y_3d, row.umap_z_3d>>

\* Fault model: a statement that writes only rows without coordinates
\* (.. WHERE id = .. AND umap_x_2d IS NULL).
UpdateRowIfAbsent(t, id, x2, y2, x3, y3, z3) ==
    IF id \in DOMAIN t /\ t[id].umap_x_2d = <<>>
    THEN [t EXCEPT ![id] = [embedding_small |-> t[id].embedding_small,
                            umap_x_2d |-> x2, umap_y_2d |-> y2, umap_x_3d |-> x3,
                            umap_y_3d |-> y3, umap_z_3d |-> z3]]
    ELSE t

\* Fault model: a statement that sets the 2D columns only.
UpdateRow2DOnly(t, id, x2, y2, x3, y3, z3) ==
    IF id \in DOMAIN t
    THEN [t EXCEPT ![id] =
            Row(t[id].embedding_small,
                <<x2, y2, t[id].umap_x_3d, t[id].umap_y_3d, t[id].umap_z_3d>>)]
    ELSE t

\* Fault model: a statement that keeps a stored 3D coordinate
\* (SET umap_x_3d = COALESCE(umap_x_3d, ..)) and overwrites the 2D pair.
UpdateRowKeep3D(t, id, x2, y2, x3, y3, z3) ==
    IF id \in DOMAIN t
    THEN [t EXCEPT ![id] =
            Row(t[id].embedding_small,
                <<x2, y2,
                  IF t[id].umap_x_3d = NULL THEN x3 ELSE t[id].umap_x_3d,
                  IF t[id].umap_y_3d = NULL THEN y3 ELSE t[id].umap_y_3d,
                  IF t[id].umap_z_3d = NULL THEN z3 ELSE t[id].umap_z_3d>>)]
    ELSE t

\* Fault model: a statement for the 2D pair that clears the 3D triple
\* (SET .., umap_x_3d = NULL, umap_y_3d = NULL, umap_z_3d = NULL).
UpdateRowReset3D(t, id, x2, y2, x3, y3, z3) ==
    IF id \in DOMAIN t
    THEN [t EXCEPT ![id] =
            Row(t[id].embedding_small, <<x2, y2, NULL, NULL, NULL>>)]
    ELSE t

\* Fault model: the statement without its WHERE clause: every row gets the
\* coordinates of the one record.
UpdateRowNoWhere(t, id, x2, y2, x3, y3, z3) ==
    [i \in DOMAIN t |-> Row(t[i].embedding_small, <<x2, y2, x3, y3, z3>>)]

\* Fault model: a statement that adds to the stored value instead of
\* replacing it (SET umap_x_2d = umap_x_2d + ..).
UpdateRowAccumulate(t, id, x2, y2, x3, y3, z3) ==
    IF id \in DOMAIN t
    THEN [t EXCEPT ![id] =
            Row(t[id].embedding_small,
                <<<<t[id].umap_x_2d, x2>>, <<t[id].umap_y_2d, y2>>,
                  <<t[id].umap_x_3d, x3>>, <<t[id].umap_y_3d, y3>>,
                  <<t[id].umap_z_3d, z3>>>>)]
    ELSE t

\* UPDATE embedding_cache SET umap_x_2d = .., .., umap_z_3d = .. WHERE id = ..
\* on the table contents t: all five columns of the one row, in one
\* statement; a key that matches no row updates nothing and is no error.
UpdateRow(t, id, x2, y2, x3, y3, z3) ==
    IF id \in DOMAIN t
    THEN [t EXCEPT ![id] = Row(t[id].embedding_small, <<x2, y2, x3, y3, z3>>)]
    ELSE t

\* Coordinate states a row can be found in before a run: never computed,
\* computed, and the two partial states an interrupted or foreign writer
\* leaves (2D without 3D, 3D without 2D).
InitCoords ==
    { <<NULL, NULL, NULL, NULL, NULL>>,
      <<OLD, OLD, OLD, OLD, OLD>>,
      <<OLD, OLD, NULL, NULL, NULL>>,
      <<NULL, NULL, OLD, OLD, OLD>> }

\* The tables over the ids S a run can start from: each record has its vector
\* or none, and one of the coordinate states above.
InitTables(S) ==
    { [id \in S |-> Row(IF f[id].e THEN VectorOf(id) ELSE NULL, f[id].c)] :
        f \in [S -> [e : BOOLEAN, c : InitCoords]] }

\* COMMIT of a connection's pending UPDATE statements, in the order issued.
RECURSIVE ApplyStatements(_, _)
ApplyStatements(t, stmts) ==
    IF stmts = <<>> THEN t
    ELSE LET s == Head(stmts)
         IN  ApplyStatements(UpdateRow(t, s[1], s[2], s[3], s[4], s[5], s[6]),
                             Tail(stmts))

\* Text is a sequence of characters: the control characters and the space
\* below, and printable pieces written <<name>> or <<name, id>>.
TAB == <<"\t">>
LF == <<"\n">>
CR == <<"\r">>
SPACE == <<" ">>

\* Text columns that hold printable text only.
PlainMeta ==
    [id \in Ids |->
        [value |-> << <<"value", id>> >>,
         source_table |-> << <<"source_table", id>> >>,
         source_column |-> << <<"source_column", id>> >>,
         usage_count |-> id]]

\* No verification tool has run.
AuditIdle == [tool |-> "none", runs |-> 0, report |-> <<>>]

\* No writer applied on its own.
WrIdle ==
    [writer |-> "none", ids |-> <<>>, coords_2d |-> <<>>, coords_3d |-> <<>>,
     applied |-> 0, first |-> <<>>]

\* ------------------------------------------------------------------ schema
\* Fault model: the table is created anew with the one column (DROP and
\* CREATE instead of ALTER), which loses the columns it had.
AddColumnRecreate(schema, col) == [ok |-> TRUE, schema |-> {col}]

\* ALTER TABLE embedding_cache ADD COLUMN col: an error (DuplicateColumn)
\* when the table has the column.
AddColumn(schema, col) ==
    IF col \in schema THEN [ok |-> FALSE, schema |-> schema]
    ELSE [ok |-> TRUE, schema |-> schema \cup {col}]

\* ALTER TABLE embedding_cache ADD COLUMN IF NOT EXISTS col: a notice and no
\* change when the table has the column.
AddColumnIfNotExists(schema, col) == [ok |-> TRUE, schema |-> schema \cup {col}]

\* Processes that connect to the store concurrently.
DbProcs == {1, 2}

\* ------------------------------------------------------------------- files
\* A file of the data directory: whether it exists, and its rows.
NoFile == [exists |-> FALSE, rows |-> <<>>]
File(rows) == [exists |-> TRUE, rows |-> rows]

NoFiles ==
    [embeddings_npy |-> NoFile, metadata_csv |-> NoFile,
     umap_2d_npy |-> NoFile, umap_3d_npy |-> NoFile]

\* ------------------------------------------------------------ verification
\* LIMIT of the sample queries of verify_updates and verify_db.
VerifyUpdatesLimit == 5
VerifyDbLimit == 5

\* COUNT(*) and COUNT(column) over embedding_cache.
CountRows(t) == Cardinality(DOMAIN t)
CountColumn(t, k) == Cardinality({id \in DOMAIN t : Coords(t[id])[k] # NULL})

\* The first n elements of a sequence (LIMIT n).
Limit(seq, n) == SubSeq(seq, 1, Min(n, Len(seq)))

\* verify_population of populate-umap-coordinates.py: one SELECT of counts
\* and of MIN/MAX per column, then the printed statistics. The percentage
\* divides by the total; an aggregate over no value is None, and formatting
\* None with .2f raises.
VerifyPopulation(t) ==
    LET total == CountRows(t)
    IN  [total |-> total,
         populated_2d |-> CountColumn(t, 1),
         populated_3d |-> CountColumn(t, 3),
         err |-> IF total = 0 THEN "ZeroDivisionError"
                 ELSE IF \E k \in 1..5 : CountColumn(t, k) = 0 THEN "TypeError"
                 ELSE "none"]

\* verify_updates of 03_update_database.py: the counts, then the first rows
\* by id that have umap_x_2d, each printed with .3f over its five columns.
VerifyUpdates(t) ==
    LET samples == Limit(OrderById({id \in DOMAIN t : t[id].umap_x_2d # NULL}),
                         VerifyUpdatesLimit)
    IN  [total |-> CountRows(t),
         with_2d |-> CountColumn(t, 1),
         with_3d |-> CountColumn(t, 3),
         err |-> IF \E i \in 1..Len(samples) :
                        \E k \in 1..5 : Coords(t[samples[i]])[k] = NULL
                 THEN "TypeError" ELSE "none"]

\* verify_update of umap-reduce.py: the count of rows WHERE umap_x_2d IS NOT
\* NULL.
VerifyUpdate(t) == [count |-> CountColumn(t, 1), err |-> "none"]

\* check_db_final.py "Check for nulls": COUNT(*) WHERE umap_x_2d IS NULL OR
\* umap_y_2d IS NULL OR umap_x_3d IS NULL OR umap_y_3d IS NULL OR umap_z_3d
\* IS NULL.
Nulls(t) ==
    Cardinality({id \in DOMAIN t : \E k \in 1..5 : Coords(t[id])[k] = NULL})

\* check_db_final.py: total, coverage (percentages divide by the total, so
\* an empty table ends the script there), vectors, rows with a NULL
\* coordinate and the verdict printed from that count.
CheckDbFinal(t) ==
    LET total == CountRows(t)
    IN  IF total = 0
        THEN [total |-> 0, err |-> "ZeroDivisionError", verdict |-> "none"]
        ELSE [total |-> total,
              with_2d |-> CountColumn(t, 1),
              with_3d |-> CountColumn(t, 3),
              embed_count |->
                  Cardinality({id \in DOMAIN t : t[id].embedding_small # NULL}),
              nulls |-> Nulls(t),
              verdict |-> IF Nulls(t) = 0 THEN "SUCCESS" ELSE "WARNING",
              err |-> "none"]

\* verify_db.py: the total, the rows with both 2D coordinates, the rows with
\* all three 3D coordinates, then the sampled rows (LIMIT without ORDER BY)
\* printed with .3f over their five columns.
VerifyDb(t, sample) ==
    [total |-> CountRows(t),
     with_2d |-> Cardinality({id \in DOMAIN t :
                    t[id].umap_x_2d # NULL /\ t[id].umap_y_2d # NULL}),
     with_3d |-> Cardinality({id \in DOMAIN t :
                    /\ t[id].umap_x_3d # NULL
                    /\ t[id].umap_y_3d # NULL
                    /\ t[id].umap_z_3d # NULL}),
     err |-> IF \E id \in sample : \E k \in 1..5 : Coords(t[id])[k] = NULL
             THEN "TypeError" ELSE "none"]

\* The rows a LIMIT n query without ORDER BY may return.
Samples(t, n) ==
    {S \in SUBSET DOMAIN t : Cardinality(S) = Min(n, CountRows(t))}

\* ------------------------------------------------------ 03_update_database
\* State of one process running 03_update_database.py. metadata, umap_2d,
\* umap_3d are main's loaded files (metadata reduced to its id column);
\* existing and k are ensure_umap_columns' existing_column_names and its
\* position in columns_to_add; idx, updated, failed are the locals of
\* update_umap_coordinates; err is the exception that ended the run; main
\* tells a run of the script from a call of ensure_umap_columns alone.
S3Idle ==
    [pc |-> "idle", metadata |-> <<>>, umap_2d |-> <<>>, umap_3d |-> <<>>,
     existing |-> {}, k |-> 0, idx |-> 0, updated |-> 0, failed |-> 0,
     err |-> "none", runs |-> 0, main |-> FALSE]

S3Terminal == {"idle", "ensured", "done", "failed"}

\* Invocations made so far by the processes of st.
RECURSIVE SumOver(_, _)
SumOver(st, S) ==
    IF S = {} THEN 0
    ELSE LET q == CHOOSE x \in S : TRUE
         IN  st[q].runs + SumOver(st, S \ {q})

SumRuns(st) == SumOver(st, DOMAIN st)

\* Fault model: main without its "Verify shapes match" test: files of
\* different lengths go on to the connection.
S3StartUnchecked(q) ==
    /\ s3[q].pc \in S3Terminal
    /\ s3[q].runs < MaxRuns
    /\ LET present == /\ files.metadata_csv.exists
                      /\ files.umap_2d_npy.exists
                      /\ files.umap_3d_npy.exists
       IN  s3' = [s3 EXCEPT
                ![q].runs = @ + 1, ![q].main = TRUE,
                ![q].metadata = IF present THEN files.metadata_csv.rows ELSE <<>>,
                ![q].umap_2d = IF present THEN files.umap_2d_npy.rows ELSE <<>>,
                ![q].umap_3d = IF present THEN files.umap_3d_npy.rows ELSE <<>>,
                ![q].existing = {}, ![q].k = 0,
                ![q].idx = 0, ![q].updated = 0, ![q].failed = 0,
                ![q].err = IF ~present THEN "FilesNotFound" ELSE "none",
                ![q].pc = IF present THEN "check" ELSE "failed"]
    /\ UNCHANGED <<db, cols, files, notS3>>

\* main up to asyncpg.connect: the three files must exist and have the same
\* number of rows, else sys.exit(1) before any connection. (The action
\* leaves pipe to whoever starts the script.)
S3Start(q) ==
    /\ s3[q].pc \in S3Terminal
    /\ s3[q].runs < MaxRuns
    /\ LET present == /\ files.metadata_csv.exists
                      /\ files.umap_2d_npy.exists
                      /\ files.umap_3d_npy.exists
           metadata == files.metadata_csv.rows
           umap_2d == files.umap_2d_npy.rows
           umap_3d == files.umap_3d_npy.rows
           same == Len(metadata) = Len(umap_2d) /\ Len(umap_2d) = Len(umap_3d)
       IN  s3' = [s3 EXCEPT
                ![q].runs = @ + 1, ![q].main = TRUE,
                ![q].metadata = IF present THEN metadata ELSE <<>>,
                ![q].umap_2d = IF present THEN umap_2d ELSE <<>>,
                ![q].umap_3d = IF present THEN umap_3d ELSE <<>>,
                ![q].existing = {}, ![q].k = 0,
                ![q].idx = 0, ![q].updated = 0, ![q].failed = 0,
                ![q].err = IF ~present THEN "FilesNotFound"
                           ELSE IF ~same THEN "ShapeMismatch" ELSE "none",
                ![q].pc = IF present /\ same THEN "check" ELSE "failed"]
    /\ UNCHANGED <<db, cols, files, notS3>>

\* ensure_umap_columns called on its own connection; MaxRuns calls in all.
S3CallEnsure(q) ==
    /\ s3[q].pc \in {"idle", "ensured", "failed"}
    /\ SumRuns(s3) < MaxRuns
    /\ s3' = [s3 EXCEPT ![q].pc = "check", ![q].runs = @ + 1,
                        ![q].main = FALSE,
                        ![q].existing = {}, ![q].k = 0, ![q].err = "none"]
    /\ UNCHANGED <<db, cols, files, pipe, notS3>>

\* ensure_umap_columns: the information_schema query.
S3Check(q) ==
    /\ s3[q].pc = "check"
    /\ s3' = [s3 EXCEPT ![q].existing = cols, ![q].k = 1, ![q].pc = "alter"]
    /\ UNCHANGED <<db, cols, files, pipe, notS3>>

\* ensure_umap_columns: one turn of the loop over columns_to_add. asyncpg
\* runs each ALTER TABLE in its own transaction; rows get NULL in the new
\* column. An ALTER that fails raises out of ensure_umap_columns and main.
S3Alter(q) ==
    /\ s3[q].pc = "alter"
    /\ s3[q].k <= Len(CoordCols)
    /\ ddlLock = 0
    /\ LET col_name == CoordCols[s3[q].k]
           r == AddColumn(cols, col_name)
       IN  IF col_name \notin s3[q].existing
           THEN /\ cols' = r.schema
                /\ s3' = IF r.ok THEN [s3 EXCEPT ![q].k = @ + 1]
                          ELSE [s3 EXCEPT ![q].pc = "failed",
                                          ![q].err = "DuplicateColumn"]
           ELSE /\ cols' = cols
                /\ s3' = [s3 EXCEPT ![q].k = @ + 1]
    /\ UNCHANGED <<db, files, pipe, notS3>>

\* ensure_umap_columns returns ("UMAP columns ready").
S3Ensured(q) ==
    /\ s3[q].pc = "alter"
    /\ s3[q].k > Len(CoordCols)
    /\ s3' = [s3 EXCEPT ![q].pc = IF s3[q].main THEN "update" ELSE "ensured"]
    /\ UNCHANGED <<db, cols, files, pipe, notS3>>

\* The connection is lost or the process is killed: main ends with exit
\* status 1; every statement already executed stays committed.
S3Fail(q) ==
    /\ s3[q].pc \in {"check", "alter", "update"}
    /\ s3' = [s3 EXCEPT ![q].pc = "failed", ![q].err = "ConnectionError"]
    /\ UNCHANGED <<db, cols, files, pipe, notS3>>

\* The statement update_umap_coordinates issues for row idx (from 1) of the
\* loaded files: the id of the metadata row with the coordinates of the
\* same row of the two arrays.
Step3Statement(metadata, umap_2d, umap_3d, idx) ==
    <<metadata[idx], umap_2d[idx][1], umap_2d[idx][2],
      umap_3d[idx][1], umap_3d[idx][2], umap_3d[idx][3]>>

\* update_umap_coordinates: one turn of the loop whose UPDATE succeeds
\* (asyncpg commits each statement on its own).
S3UpdateRow(q) ==
    /\ s3[q].pc = "update"
    /\ s3[q].idx < Len(s3[q].metadata)
    /\ CoordColSet \subseteq cols
    /\ LET st == Step3Statement(s3[q].metadata, s3[q].umap_2d, s3[q].umap_3d,
                                s3[q].idx + 1)
       IN  db' = UpdateRow(db, st[1], st[2], st[3], st[4], st[5], st[6])
    /\ s3' = [s3 EXCEPT ![q].idx = @ + 1, ![q].updated = @ + 1]
    /\ UNCHANGED <<cols, files, pipe, notS3>>

\* update_umap_coordinates: one turn of the loop whose UPDATE raises; the
\* exception is caught, counted and the loop goes on.
S3UpdateRowFailed(q) ==
    /\ s3[q].pc = "update"
    /\ s3[q].idx < Len(s3[q].metadata)
    /\ s3' = [s3 EXCEPT ![q].idx = @ + 1, ![q].failed = @ + 1]
    /\ UNCHANGED <<db, cols, files, pipe, notS3>>

\* The loop is over; verify_updates only reads, and main ends with status
\* 0, or with status 1 through its except branch when the printing of the
\* samples raised.
S3Verify(q) ==
    /\ s3[q].pc = "update"
    /\ s3[q].idx >= Len(s3[q].metadata)
    /\ LET err == VerifyUpdates(db).err
       IN  s3' = [s3 EXCEPT ![q].pc = IF err = "none" THEN "done" ELSE "failed",
                            ![q].err = err]
    /\ UNCHANGED <<db, cols, files, pipe, notS3>>

\* ------------------------------------------------------ 01_extract_embeddings
\* State of the process running 01_extract_embeddings.py: embeddings and
\* metadata are main's locals (metadata reduced to its id column).
\* err tells how the last run ended when it ended with status 1.
S1Idle ==
    [pc |-> "idle", embeddings |-> <<>>, metadata |-> <<>>, runs |-> 0,
     err |-> "none"]

StepTerminal == {"idle", "done", "failed"}

\* The script starts: environment loaded, extract_embeddings connects.
S1Start ==
    /\ s1.pc \in StepTerminal
    /\ s1.runs < MaxRuns
    /\ s1' = [s1 EXCEPT ![("pc")] = "extract", ![("runs")] = @ + 1,
                        ![("embeddings")] = <<>>, ![("metadata")] = <<>>,
                        ![("err")] = "none"]
    /\ UNCHANGED <<files, notS1>>

\* WHERE embedding_small IS NOT NULL ORDER BY id
ExtractIds(t) == OrderById({id \in DOMAIN t : t[id].embedding_small # NULL})

\* extract_embeddings and main's len(embeddings) == 0 test. float(x) raises
\* on the first stored text that is no list of numbers, np.array(embeddings,
\* dtype=np.float32) raises when the parsed vectors differ in length; both
\* reach main's except branch. No row is sys.exit(1).
S1Extract ==
    /\ s1.pc = "extract"
    /\ LET ids == ExtractIds(db)
           embeddings == [k \in 1..Len(ids) |-> db[ids[k]].embedding_small]
           err == IF \E k \in 1..Len(ids) : ~Parses(embeddings[k])
                  THEN "ValueError"
                  ELSE IF ~Stackable(embeddings) THEN "ValueError"
                  ELSE IF ids = <<>> THEN "NoEmbeddings"
                  ELSE "none"
       IN  s1' = IF err = "none"
                 THEN [s1 EXCEPT ![("metadata")] = ids,
                                 ![("embeddings")] = embeddings,
                                 ![("pc")] = "save_embeddings"]
                 ELSE [S1Idle EXCEPT ![("pc")] = "failed",
                                     ![("runs")] = s1.runs,
                                     ![("err")] = err]
    /\ UNCHANGED <<files, pipe, notS1>>

\* np.save(embeddings_path, embeddings)
S1SaveEmbeddings ==
    /\ s1.pc = "save_embeddings"
    /\ files' = [files EXCEPT ![("embeddings_npy")] = File(s1.embeddings)]
    /\ s1' = [s1 EXCEPT ![("pc")] = "save_metadata"]
    /\ UNCHANGED <<pipe, notS1>>

\* metadata.to_csv(metadata_path); the rest of main only prints.
S1SaveMetadata ==
    /\ s1.pc = "save_metadata"
    /\ files' = [files EXCEPT ![("metadata_csv")] = File(s1.metadata)]
    /\ s1' = [S1Idle EXCEPT ![("pc")] = "done", ![("runs")] = s1.runs]
    /\ UNCHANGED <<pipe, notS1>>

\* An exception (main's except branch, sys.exit(1)) or a kill.
S1Fail ==
    /\ s1.pc \in {"extract", "save_embeddings", "save_metadata"}
    /\ s1' = [S1Idle EXCEPT ![("pc")] = "failed", ![("runs")] = s1.runs,
                           ![("err")] = "Error"]
    /\ UNCHANGED <<files, pipe, notS1>>

\* ------------------------------------------------------ 02_reduce_with_umap
S2Idle ==
    [pc |-> "idle", embeddings |-> <<>>, metadata |-> <<>>,
     reduced_2d |-> <<>>, reduced_3d |-> <<>>, runs |-> 0]

\* main up to the first reduction: embeddings_1536d.npy must exist, else
\* sys.exit(1); pd.read_csv raises when metadata.csv does not.
S2Start ==
    /\ s2.pc \in StepTerminal
    /\ s2.runs < MaxRuns
    /\ LET ok == files.embeddings_npy.exists /\ files.metadata_csv.exists
       IN  s2' = [s2 EXCEPT
                ![("runs")] = @ + 1,
                ![("embeddings")] = IF ok THEN files.embeddings_npy.rows ELSE <<>>,
                ![("metadata")] = IF ok THEN files.metadata_csv.rows ELSE <<>>,
                ![("reduced_2d")] = <<>>, ![("reduced_3d")] = <<>>,
                ![("pc")] = IF ok THEN "reduce_2d" ELSE "failed"]
    /\ UNCHANGED <<files, notS2>>

\* reduce_embeddings(embeddings, n_components=2) and np.save of umap_2d.npy.
S2Reduce2d ==
    /\ s2.pc = "reduce_2d"
    /\ LET reduced_2d == FitTransform(2, s2.embeddings)
       IN  /\ s2' = [s2 EXCEPT ![("reduced_2d")] = reduced_2d,
                               ![("pc")] = "reduce_3d"]
           /\ files' = [files EXCEPT ![("umap_2d_npy")] = File(reduced_2d)]
    /\ UNCHANGED <<pipe, notS2>>

\* reduce_embeddings(embeddings, n_components=3) and np.save of umap_3d.npy.
S2Reduce3d ==
    /\ s2.pc = "reduce_3d"
    /\ LET reduced_3d == FitTransform(3, s2.embeddings)
       IN  /\ s2' = [s2 EXCEPT ![("reduced_3d")] = reduced_3d,
                               ![("pc")] = "combine"]
           /\ files' = [files EXCEPT ![("umap_3d_npy")] = File(reduced_3d)]
    /\ UNCHANGED <<pipe, notS2>>

\* The combined CSV files: assigning the coordinate columns to a copy of
\* metadata raises when the lengths differ.
S2Combine ==
    /\ s2.pc = "combine"
    /\ s2' = [S2Idle EXCEPT
                ![("runs")] = s2.runs,
                ![("pc")] = IF Len(s2.metadata) = Len(s2.reduced_2d)
                            THEN "done" ELSE "failed"]
    /\ UNCHANGED <<files, pipe, notS2>>

\* The projection raises, or the process is killed.
S2Fail ==
    /\ s2.pc \in {"reduce_2d", "reduce_3d", "combine"}
    /\ s2' = [S2Idle EXCEPT ![("pc")] = "failed", ![("runs")] = s2.runs]
    /\ UNCHANGED <<files, pipe, notS2>>

\* ------------------------------------------------------------ 04_export_tsv
\* The export step reads the store and writes files for the viewer; it
\* ends with status 0 or not.
S4Idle == [pc |-> "idle", runs |-> 0]

S4Start ==
    /\ s4.pc \in StepTerminal
    /\ s4.runs < MaxRuns
    /\ s4' = [s4 EXCEPT ![("pc")] = "export", ![("runs")] = @ + 1]
    /\ UNCHANGED notS4

S4Done ==
    /\ s4.pc = "export"
    /\ s4' = [s4 EXCEPT ![("pc")] = "done"]
    /\ UNCHANGED <<pipe, notS4>>

S4Fail ==
    /\ s4.pc = "export"
    /\ s4' = [s4 EXCEPT ![("pc")] = "failed"]
    /\ UNCHANGED <<pipe, notS4>>

\* ------------------------------------------------------------- run_pipeline
\* steps of main, by position.
AllSteps == 1..4

\* State of run_pipeline.py main: scripts are the step scripts that exist
\* in the pipeline directory; idx and successful_steps are main's locals;
\* started lists the steps whose "STEP:" banner run_script has printed in
\* this run, returned the values run_script returned; retry is the step of
\* the "To retry from this step" message, 0 when none was printed. After a
\* failed run, resume is the step the operator runs by hand next (5 when
\* the last step has succeeded) and resuming tells that it is running.
PipeIdle(scripts) ==
    [pc |-> "idle", scripts |-> scripts, idx |-> 0, successful_steps |-> 0,
     started |-> <<>>, returned |-> <<>>, retry |-> 0, runs |-> 0,
     resume |-> 0, resuming |-> FALSE]

PipeTerminal == {"idle", "complete", "failed"}

\* The process of step n.
StepPc(n) ==
    CASE n = 1 -> s1.pc
      [] n = 2 -> s2.pc
      [] n = 3 -> s3[1].pc
      [] n = 4 -> s4.pc

\* How many times the script of step n has been started.
StepRuns(n) ==
    CASE n = 1 -> s1.runs
      [] n = 2 -> s2.runs
      [] n = 3 -> s3[1].runs
      [] n = 4 -> s4.runs

\* uv run <script of step n>
StepStart(n) ==
    \/ n = 1 /\ S1Start
    \/ n = 2 /\ S2Start
    \/ n = 3 /\ S3Start(1)
    \/ n = 4 /\ S4Start

\* Fault model: only the first script is looked for.
FirstScriptExists(scripts) == 1 \in scripts

\* "Verify all scripts exist": the loop over steps finds no missing script.
ScriptsExist(scripts) == AllSteps \subseteq scripts

\* The exit status of run_pipeline.py once main has ended: 0 when main
\* returns after "PIPELINE COMPLETE", 1 for each sys.exit(1).
PipeExitStatus(pc) == IF pc = "complete" THEN 0 ELSE 1

\* main up to the loop: every script must exist, else sys.exit(1).
PipeStart ==
    /\ pipe.pc \in PipeTerminal
    /\ ~pipe.resuming
    /\ pipe.runs < MaxRuns
    /\ pipe' = [pipe EXCEPT
            ![("runs")] = @ + 1, ![("idx")] = 1, ![("successful_steps")] = 0,
            ![("resume")] = 0,
            ![("started")] = <<>>, ![("returned")] = <<>>, ![("retry")] = 0,
            ![("pc")] = IF ScriptsExist(pipe.scripts) THEN "launch" ELSE "failed"]
    /\ UNCHANGED notPipe

\* run_script: the banner, then subprocess.run starts the script.
PipeRunScript ==
    /\ pipe.pc = "launch"
    /\ StepStart(pipe.idx)
    /\ pipe' = [pipe EXCEPT ![("pc")] = "waiting",
                            ![("started")] = Append(@, pipe.idx)]

\* run_script: subprocess.run raises something other than
\* CalledProcessError (uv cannot be started); run_script returns False.
PipeRunScriptError ==
    /\ pipe.pc = "launch"
    /\ pipe' = [pipe EXCEPT ![("pc")] = "returned",
                            ![("started")] = Append(@, pipe.idx),
                            ![("returned")] = Append(@, FALSE)]
    /\ UNCHANGED notPipe

\* run_script: the script has ended; True for exit status 0, False for
\* CalledProcessError.
PipeScriptEnded ==
    /\ pipe.pc = "waiting"
    /\ StepPc(pipe.idx) \in {"done", "failed"}
    /\ pipe' = [pipe EXCEPT ![("pc")] = "returned",
                            ![("returned")] = Append(@, StepPc(pipe.idx) = "done")]
    /\ UNCHANGED notPipe

\* main without the "if not success" branch: it goes on after a failure.
AfterStepContinue(idx, success) ==
    IF idx < 4 THEN [pc |-> "launch", idx |-> idx + 1, retry |-> 0]
    ELSE [pc |-> "complete", idx |-> idx, retry |-> 0]

\* Where main goes with the value run_script returned for step idx:
\* "Failed at step idx" and sys.exit(1), the next step, or the end.
AfterStep(idx, success) ==
    IF ~success THEN [pc |-> "failed", idx |-> idx, retry |-> idx]
    ELSE IF idx < 4 THEN [pc |-> "launch", idx |-> idx + 1, retry |-> 0]
    ELSE [pc |-> "complete", idx |-> idx, retry |-> 0]

\* The body of main's loop after run_script.
PipeAfterStep ==
    /\ pipe.pc = "returned"
    /\ LET success == pipe.returned[Len(pipe.returned)]
           r == AfterStep(pipe.idx, success)
       IN  pipe' = [pipe EXCEPT
                ![("pc")] = r.pc, ![("idx")] = r.idx, ![("retry")] = r.retry,
                ![("resume")] = r.retry,
                ![("successful_steps")] = IF success THEN @ + 1 ELSE @]
    /\ UNCHANGED notPipe

\* After "To retry from this step, run: uv run <script>" the operator runs
\* that script by hand, and after it the scripts of the following steps.
ResumeStep ==
    /\ pipe.pc = "failed"
    /\ pipe.resume \in AllSteps
    /\ ~pipe.resuming
    /\ StepStart(pipe.resume)
    /\ pipe' = [pipe EXCEPT ![("resuming")] = TRUE]

\* The script run by hand has ended: with status 0 the operator goes on to
\* the next step, otherwise the same step is to be run again.
ResumeStepEnded ==
    /\ pipe.resuming
    /\ StepPc(pipe.resume) \in {"done", "failed"}
    /\ pipe' = [pipe EXCEPT
            ![("resuming")] = FALSE,
            ![("resume")] = IF StepPc(pipe.resume) = "done" THEN @ + 1 ELSE @]
    /\ UNCHANGED notPipe

\* Rows whose coordinate columns hold a value only where the table has the
\* column: all NULL, or a value in every column of c.
InitTablesFor(S, c) ==
    { [id \in S |->
         Row(VectorOf(id),
             [k \in 1..5 |-> IF f[id] /\ CoordCols[k] \in c THEN OLD ELSE NULL])] :
        f \in [S -> BOOLEAN] }

\* -------------------------------------------------------------- umap-reduce
\* value_hash of record id: unique, and ordered otherwise than id.
ValueHash(id) == NumIds + 1 - id

\* The text columns of record id.
ValueOf(id) == meta[id].value
SourceTableOf(id) == meta[id].source_table
SourceColumnOf(id) == meta[id].source_column
UsageCountOf(id) == meta[id].usage_count

NoTsv == [embeddings_2d |-> NoFile, embeddings_3d |-> NoFile, metadata |-> NoFile]

\* State of one process running umap-reduce.py. existing, columns_to_add, k
\* are add_umap_columns' locals and its position in columns_to_add; pending
\* the columns its open transaction has added; data is main's list of
\* records, umap_2d and umap_3d the fields run_umap adds to them; idx is
\* update_database's position, txn the open transaction's UPDATE
\* statements, file the export file being written (1 to 3); out the closing
\* line of every invocation so far; main tells a run of the script from a
\* call of add_umap_columns alone.
RedIdle ==
    [pc |-> "idle", existing |-> {}, columns_to_add |-> <<>>, k |-> 0,
     pending |-> {}, data |-> <<>>, umap_2d |-> <<>>, umap_3d |-> <<>>,
     idx |-> 0, txn |-> <<>>, file |-> 0, err |-> "none", runs |-> 0,
     out |-> <<>>, main |-> FALSE]

RedTerminal == {"idle", "schema_done", "done", "failed"}

\* add_umap_columns called on its own connection; MaxRuns calls in all.
RedCallAdd(q) ==
    /\ red[q].pc \in RedTerminal
    /\ SumRuns(red) < MaxRuns
    /\ red' = [red EXCEPT ![q].pc = "schema_check", ![q].runs = @ + 1,
                          ![q].main = FALSE,
                          ![q].existing = {}, ![q].columns_to_add = <<>>,
                          ![q].k = 0, ![q].pending = {}, ![q].err = "none"]
    /\ UNCHANGED <<db, cols, ddlLock, tsv, notRed>>

\* columns_to_add of add_umap_columns: the 2D columns when umap_x_2d is not
\* among the existing ones, the 3D columns when umap_x_3d is not.
ColumnsToAdd(existing) ==
    (IF "umap_x_2d" \notin existing THEN <<"umap_x_2d", "umap_y_2d">> ELSE <<>>)
    \o (IF "umap_x_3d" \notin existing
        THEN <<"umap_x_3d", "umap_y_3d", "umap_z_3d">> ELSE <<>>)

\* add_umap_columns: the information_schema query and the two tests. With
\* nothing to add the function returns ("UMAP columns already exist").
RedSchemaCheck(q) ==
    /\ red[q].pc = "schema_check"
    /\ LET existing == cols
           columns_to_add == ColumnsToAdd(existing)
       IN  red' = [red EXCEPT
                ![q].existing = existing,
                ![q].columns_to_add = columns_to_add,
                ![q].k = 1,
                ![q].pc = IF columns_to_add # <<>> THEN "schema_alter"
                          ELSE IF red[q].main THEN "fetch" ELSE "schema_done",
                ![q].out = IF columns_to_add = <<>> THEN Append(@, "SchemaReady")
                           ELSE @]
    /\ UNCHANGED <<db, cols, ddlLock, tsv, notRed>>

\* The ALTER TABLE statement add_umap_columns issues.
ReduceAlter(schema, col) == AddColumnIfNotExists(schema, col)

\* add_umap_columns: one ALTER TABLE of the loop, inside the connection's
\* transaction. The statement waits while another transaction holds the
\* table's ACCESS EXCLUSIVE lock, and holds the lock until commit.
RedSchemaAlter(q) ==
    /\ red[q].pc = "schema_alter"
    /\ red[q].k <= Len(red[q].columns_to_add)
    /\ ddlLock \in {0, q}
    /\ LET col == red[q].columns_to_add[red[q].k]
           r == ReduceAlter(cols \cup red[q].pending, col)
       IN  IF r.ok
           THEN /\ red' = [red EXCEPT ![q].pending = r.schema \ cols,
                                      ![q].k = @ + 1]
                /\ ddlLock' = q
           ELSE /\ red' = [red EXCEPT ![q].pending = {}, ![q].pc = "failed",
                                      ![q].err = "DuplicateColumn",
                                      ![q].out = Append(@, "Error")]
                /\ ddlLock' = 0
    /\ UNCHANGED <<db, cols, tsv, notRed>>

\* add_umap_columns: conn.commit() after the loop ("Schema updated"). The
\* new columns are NULL in every row.
RedSchemaCommit(q) ==
    /\ red[q].pc = "schema_alter"
    /\ red[q].k > Len(red[q].columns_to_add)
    /\ cols' = cols \cup red[q].pending
    /\ ddlLock' = 0
    /\ red' = [red EXCEPT
            ![q].pending = {},
            ![q].pc = IF red[q].main THEN "fetch" ELSE "schema_done",
            ![q].out = Append(@, "SchemaReady")]
    /\ UNCHANGED <<db, tsv, notRed>>

\* A statement raises or the process is killed: main ends with exit status
\* 1, the connection closes and its open transaction is rolled back.
RedFail(q) ==
    /\ red[q].pc \notin RedTerminal
    /\ red' = [red EXCEPT ![q].pc = "failed", ![q].pending = {},
                          ![q].txn = <<>>, ![q].err = "ConnectionError",
                          ![q].out = Append(@, "Error")]
    /\ ddlLock' = IF ddlLock = q THEN 0 ELSE ddlLock
    /\ UNCHANGED <<db, cols, tsv, notRed>>

\* python umap-reduce.py: main connects and calls add_umap_columns.
RedStart(q) ==
    /\ red[q].pc \in RedTerminal
    /\ SumRuns(red) < MaxRuns
    /\ red' = [red EXCEPT ![q].pc = "schema_check", ![q].runs = @ + 1,
                          ![q].main = TRUE,
                          ![q].existing = {}, ![q].columns_to_add = <<>>,
                          ![q].k = 0, ![q].pending = {}, ![q].err = "none",
                          ![q].data = <<>>, ![q].umap_2d = <<>>,
                          ![q].umap_3d = <<>>, ![q].idx = 0, ![q].txn = <<>>,
                          ![q].file = 0]
    /\ UNCHANGED <<db, cols, ddlLock, tsv, notRed>>

\* ORDER BY value_hash
RECURSIVE OrderByValueHash(_)
OrderByValueHash(S) ==
    IF S = {} THEN <<>>
    ELSE LET first == CHOOSE id \in S : \A o \in S : ValueHash(id) <= ValueHash(o)
         IN  <<first>> \o OrderByValueHash(S \ {first})

\* The dict fetch_embeddings builds for the row id of table t.
DataRecord(t, id) ==
    [value_hash |-> ValueHash(id), value |-> ValueOf(id),
     embedding |-> t[id].embedding_small, source_table |-> SourceTableOf(id),
     source_column |-> SourceColumnOf(id), usage_count |-> UsageCountOf(id)]

\* fetch_embeddings: the rows WHERE embedding_small IS NOT NULL ORDER BY
\* value_hash; none is sys.exit(1).
RedFetch(q) ==
    /\ red[q].pc = "fetch"
    /\ LET ids == OrderByValueHash({id \in DOMAIN db : db[id].embedding_small # NULL})
           data == [k \in 1..Len(ids) |-> DataRecord(db, ids[k])]
           err == IF data = <<>> THEN "NoEmbeddings"
                  ELSE IF \E k \in 1..Len(data) : ~Parses(data[k].embedding)
                       THEN "ValueError"
                  ELSE "none"
       IN  red' = [red EXCEPT
                ![q].data = IF err = "none" THEN data ELSE <<>>,
                ![q].pc = IF err = "none" THEN "umap" ELSE "failed",
                ![q].err = IF err = "none" THEN @ ELSE err,
                ![q].out = IF err = "none" THEN @ ELSE Append(@, "Error")]
    /\ UNCHANGED <<db, cols, ddlLock, tsv, notRed>>

\* Fault model: run_umap recovers per row, leaving out the records whose
\* vector does not fit and projecting the others.
RedUmapSkipRows(q) ==
    /\ red[q].pc = "umap"
    /\ LET fits == SelectSeq(red[q].data, LAMBDA d : Len(d.embedding) = 2)
           embeddings == [k \in 1..Len(fits) |-> fits[k].embedding]
       IN  red' = [red EXCEPT ![q].data = fits,
                              ![q].umap_2d = FitTransform(2, embeddings),
                              ![q].umap_3d = FitTransform(3, embeddings),
                              ![q].idx = 0, ![q].pc = "update"]
    /\ UNCHANGED <<db, cols, ddlLock, tsv, notRed>>

\* run_umap: np.vstack of the embeddings, the 2D and the 3D projection.
RedUmap(q) ==
    /\ red[q].pc = "umap"
    /\ LET embeddings == [k \in 1..Len(red[q].data) |-> red[q].data[k].embedding]
       IN  red' = IF Stackable(embeddings)
                  THEN [red EXCEPT ![q].umap_2d = FitTransform(2, embeddings),
                                   ![q].umap_3d = FitTransform(3, embeddings),
                                   ![q].idx = 0, ![q].pc = "update"]
                  ELSE [red EXCEPT ![q].pc = "failed", ![q].err = "ValueError",
                                   ![q].out = Append(@, "Error")]
    /\ UNCHANGED <<db, cols, ddlLock, tsv, notRed>>

\* UPDATE embedding_cache SET .. WHERE value_hash = h, on the contents t.
UpdateByHash(t, h, x2, y2, x3, y3, z3) ==
    [id \in DOMAIN t |->
        IF ValueHash(id) = h
        THEN Row(t[id].embedding_small, <<x2, y2, x3, y3, z3>>)
        ELSE t[id]]

\* COMMIT of update_database's statements, in the order issued.
RECURSIVE ApplyHashStatements(_, _)
ApplyHashStatements(t, stmts) ==
    IF stmts = <<>> THEN t
    ELSE LET st == Head(stmts)
         IN  ApplyHashStatements(
                 UpdateByHash(t, st[1], st[2], st[3], st[4], st[5], st[6]),
                 Tail(stmts))

\* The parameters of the UPDATE update_database issues for data[i] (i from 1).
ReduceStatement(data, umap_2d, umap_3d, i) ==
    <<data[i].value_hash, umap_2d[i][1], umap_2d[i][2],
      umap_3d[i][1], umap_3d[i][2], umap_3d[i][3]>>

\* Fault model: update_database on a connection in autocommit mode, every
\* UPDATE committed as it is executed.
RedUpdateRowAutocommit(q) ==
    /\ red[q].pc = "update"
    /\ red[q].idx < Len(red[q].data)
    /\ CoordColSet \subseteq cols
    /\ db' = ApplyHashStatements(db,
                <<ReduceStatement(red[q].data, red[q].umap_2d, red[q].umap_3d,
                                  red[q].idx + 1)>>)
    /\ red' = [red EXCEPT ![q].idx = @ + 1]
    /\ UNCHANGED <<cols, ddlLock, tsv, notRed>>

\* update_database: one cursor.execute of the loop, inside the connection's
\* transaction; a missing column raises.
RedUpdateRow(q) ==
    /\ red[q].pc = "update"
    /\ red[q].idx < Len(red[q].data)
    /\ IF CoordColSet \subseteq cols
       THEN red' = [red EXCEPT
                ![q].txn = Append(@, ReduceStatement(red[q].data, red[q].umap_2d,
                                                     red[q].umap_3d, red[q].idx + 1)),
                ![q].idx = @ + 1]
       ELSE red' = [red EXCEPT ![q].pc = "failed", ![q].txn = <<>>,
                               ![q].err = "UndefinedColumn",
                               ![q].out = Append(@, "Error")]
    /\ UNCHANGED <<db, cols, ddlLock, tsv, notRed>>

\* update_database: conn.commit() after the loop; verify_update only reads.
RedCommit(q) ==
    /\ red[q].pc = "update"
    /\ red[q].idx >= Len(red[q].data)
    /\ db' = ApplyHashStatements(db, red[q].txn)
    /\ red' = [red EXCEPT ![q].txn = <<>>, ![q].pc = "export_open",
                          ![q].file = 1]
    /\ UNCHANGED <<cols, ddlLock, tsv, notRed>>

\* f"{v:.6f}": the digits of v with six decimals, and f"{n}" of a count;
\* neither holds a tab or a line break.
Format6(v) == <<"%.6f", v>>
FormatCount(n) == <<"%d", n>>

\* A provenance field goes into the f-string as it is.
RawField(text) == text

\* value.replace('\t', ' ').replace('\n', ' ').replace('\r', ' ')
Sanitize(value) ==
    [i \in 1..Len(value) |-> IF value[i] \in {TAB, LF, CR} THEN SPACE ELSE value[i]]

\* What export_tsv writes into each of its three files, by file number: the
\* strings of its f.write calls in order, each a sequence of characters.
TsvLines(file, data, umap_2d, umap_3d) ==
    CASE file = 1 ->
            [k \in 1..Len(data) |->
                <<Format6(umap_2d[k][1]), TAB, Format6(umap_2d[k][2]), LF>>]
      [] file = 2 ->
            [k \in 1..Len(data) |->
                <<Format6(umap_3d[k][1]), TAB, Format6(umap_3d[k][2]), TAB,
                  Format6(umap_3d[k][3]), LF>>]
      [] file = 3 ->
            << <<<<"value">>, TAB, <<"source_table">>, TAB, <<"source_column">>,
                 TAB, <<"usage_count">>, LF>> >>
            \o [k \in 1..Len(data) |->
                    Sanitize(data[k].value) \o <<TAB>>
                    \o RawField(data[k].source_table) \o <<TAB>>
                    \o RawField(data[k].source_column) \o <<TAB>>
                    \o <<FormatCount(data[k].usage_count), LF>>]

TsvNames == <<"embeddings_2d", "embeddings_3d", "metadata">>

\* export_tsv: open(path, 'w') creates or truncates the file.
RedExportOpen(q) ==
    /\ red[q].pc = "export_open"
    /\ tsv' = [tsv EXCEPT ![TsvNames[red[q].file]] = File(<<>>)]
    /\ red' = [red EXCEPT ![q].pc = "export_write"]
    /\ UNCHANGED <<db, cols, ddlLock, notRed>>

\* export_tsv: the lines are written and the file closed; after the third
\* file main prints its report.
RedExportWrite(q) ==
    /\ red[q].pc = "export_write"
    /\ tsv' = [tsv EXCEPT ![TsvNames[red[q].file]] =
                File(TsvLines(red[q].file, red[q].data, red[q].umap_2d,
                              red[q].umap_3d))]
    /\ red' = [red EXCEPT
            ![q].file = IF @ < 3 THEN @ + 1 ELSE @,
            ![q].pc = IF red[q].file < 3 THEN "export_open" ELSE "done",
            ![q].out = IF red[q].file < 3 THEN @ ELSE Append(@, "Completed")]
    /\ UNCHANGED <<db, cols, ddlLock, notRed>>

\* One step of a process running umap-reduce.py.
RedNext(q) ==
    \/ RedStart(q)
    \/ RedSchemaCheck(q)
    \/ RedSchemaAlter(q)
    \/ RedSchemaCommit(q)
    \/ RedFetch(q)
    \/ RedUmap(q)
    \/ RedUpdateRow(q)
    \/ RedCommit(q)
    \/ RedExportOpen(q)
    \/ RedExportWrite(q)
    \/ RedFail(q)

\* ------------------------------------------------------- verification tools
AuditTools ==
    {"verify_population", "verify_updates", "verify_update",
     "check_db_final", "verify_db"}

\* The reports a run of the tool over the table t can print.
AuditReports(tool, t) ==
    CASE tool = "verify_population" -> {VerifyPopulation(t)}
      [] tool = "verify_updates" -> {VerifyUpdates(t)}
      [] tool = "verify_update" -> {VerifyUpdate(t)}
      [] tool = "check_db_final" -> {CheckDbFinal(t)}
      [] tool = "verify_db" -> {VerifyDb(t, S) : S \in Samples(t, VerifyDbLimit)}

\* Fault model: a verification that repairs what it flags, clearing the
\* coordinates of every row that lacks one of them.
RunVerificationRepair(tool) ==
    /\ audit.runs < MaxRuns
    /\ \E report \in AuditReports(tool, db) :
            audit' = [tool |-> tool, runs |-> audit.runs + 1, report |-> report]
    /\ db' = [id \in DOMAIN db |->
                IF \E k \in 1..5 : Coords(db[id])[k] = NULL
                THEN Row(db[id].embedding_small, [k \in 1..5 |-> NULL])
                ELSE db[id]]
    /\ UNCHANGED <<cols, ddlLock, pop, files, s3, red, tsv, s1, s2, s4, pipe, wr, meta>>

\* One run of a verification tool on its own connection: SELECT statements
\* only, the connection is closed without commit.
RunVerification(tool) ==
    /\ audit.runs < MaxRuns
    /\ \E report \in AuditReports(tool, db) :
            audit' = [tool |-> tool, runs |-> audit.runs + 1, report |-> report]
    /\ UNCHANGED <<db, cols, ddlLock, pop, files, s3, red, tsv, s1, s2, s4,
                   pipe, wr, meta>>

\* ----------------------------------------------- populate-umap-coordinates
PopProcs == {1}

\* State of one process running populate-umap-coordinates.py main().
\* ids, embeddings, coords_2d, coords_3d, total_updated are main's locals;
\* i is the offset of the batch being written, j the number of statements of
\* the batch executed so far, txn the open transaction's statements, out the
\* closing message of every run so far ("Success", "AllDone" for "All
\* embeddings already have UMAP coordinates", "Error" for exit status 1).
\* A run's locals are kept after it ends, until the next run's fetch.
PopIdle ==
    [pc |-> "idle", ids |-> <<>>, embeddings |-> <<>>,
     coords_2d |-> <<>>, coords_3d |-> <<>>,
     i |-> 0, j |-> 0, txn |-> <<>>, total_updated |-> 0, runs |-> 0,
     out |-> <<>>, stats |-> <<>>]

PopTerminal == {"idle", "nothing", "success", "failed"}

\* Fault model: the query without its WHERE clause, as the module docstring
\* words it ("Fetches all embeddings").
PendingIdsAll(t) == OrderById(DOMAIN t)

\* WHERE umap_x_2d IS NULL ORDER BY id
PendingIds(t) == OrderById({id \in DOMAIN t : t[id].umap_x_2d = NULL})

\* python populate-umap-coordinates.py: psycopg2.connect.
PopConnect(p) ==
    /\ pop[p].pc \in PopTerminal
    /\ pop[p].runs < MaxRuns
    /\ pop' = [pop EXCEPT ![p].pc = "connected", ![p].runs = @ + 1,
                          ![p].txn = <<>>, ![p].j = 0, ![p].stats = <<>>]
    /\ UNCHANGED <<db, cols, notPop>>

\* fetch_embeddings and main's len(ids) == 0 test. np.array(.., float32) over
\* a row without a vector raises (or yields a matrix UMAP rejects): the run
\* ends in the except branch before anything is written.
PopFetch(p) ==
    /\ pop[p].pc = "connected"
    /\ "umap_x_2d" \in cols
    /\ LET ids == PendingIds(db)
           embeddings == [k \in 1..Len(ids) |-> db[ids[k]].embedding_small]
           pc == IF ids = <<>> THEN "nothing"
                 ELSE IF \/ \E k \in 1..Len(ids) : embeddings[k] = NULL
                         \/ ~Stackable(embeddings)
                      THEN "failed"
                 ELSE "fetched"
       IN  pop' = [pop EXCEPT
                ![p].ids = ids,
                ![p].embeddings = IF ids = <<>> THEN <<>> ELSE embeddings,
                ![p].coords_2d = <<>>, ![p].coords_3d = <<>>,
                ![p].i = 0, ![p].j = 0, ![p].total_updated = 0,
                ![p].pc = pc,
                ![p].out = IF pc = "nothing" THEN Append(@, "AllDone")
                           ELSE IF pc = "failed" THEN Append(@, "Error")
                           ELSE @]
    /\ UNCHANGED <<db, cols, notPop>>

\* compute_umap_projections: two independent fits over the same matrix.
PopCompute(p) ==
    /\ pop[p].pc = "fetched"
    /\ pop' = [pop EXCEPT
            ![p].coords_2d = FitTransform(2, pop[p].embeddings),
            ![p].coords_3d = FitTransform(3, pop[p].embeddings),
            ![p].pc = "updating"]
    /\ UNCHANGED <<db, cols, notPop>>

\* Fault model: the key of row j paired with the coordinates of another
\* position (the matrix read back in the opposite order).
BatchRowByPosition(ids, coords_2d, coords_3d, j) ==
    LET k == Len(ids) + 1 - j
    IN  <<ids[j], coords_2d[k][1], coords_2d[k][2],
          coords_3d[k][1], coords_3d[k][2], coords_3d[k][3]>>

\* batch_data[j - i] of update_umap_coordinates, j counted from 1.
BatchRow(ids, coords_2d, coords_3d, j) ==
    <<ids[j], coords_2d[j][1], coords_2d[j][2],
      coords_3d[j][1], coords_3d[j][2], coords_3d[j][3]>>

\* Fault model: a connection in autocommit mode, every UPDATE its own
\* transaction.
ExecuteUpdateAutocommit(t, txn, stmt) ==
    [table |-> UpdateRow(t, stmt[1], stmt[2], stmt[3], stmt[4], stmt[5], stmt[6]),
     txn |-> txn]

\* Where one UPDATE of executemany lands: in the connection's open
\* transaction (psycopg2 connections are not autocommit), not in the table.
ExecuteUpdate(t, txn, stmt) == [table |-> t, txn |-> Append(txn, stmt)]

\* One statement of cur.executemany(update_query, batch_data).
PopExecute(p) ==
    /\ pop[p].pc = "updating"
    /\ pop[p].i < Len(pop[p].ids)
    /\ pop[p].i + pop[p].j < Min(pop[p].i + BATCH_SIZE, Len(pop[p].ids))
    /\ LET j == pop[p].i + pop[p].j + 1
           r == ExecuteUpdate(db, pop[p].txn,
                    BatchRow(pop[p].ids, pop[p].coords_2d, pop[p].coords_3d, j))
       IN  /\ db' = r.table
           /\ pop' = [pop EXCEPT ![p].txn = r.txn, ![p].j = @ + 1]
    /\ UNCHANGED <<cols, notPop>>

\* conn.commit() after the batch's executemany; total_updated += len(batch).
PopCommit(p) ==
    /\ pop[p].pc = "updating"
    /\ pop[p].i < Len(pop[p].ids)
    /\ pop[p].i + pop[p].j = Min(pop[p].i + BATCH_SIZE, Len(pop[p].ids))
    /\ db' = ApplyStatements(db, pop[p].txn)
    /\ pop' = [pop EXCEPT ![p].txn = <<>>,
                          ![p].total_updated = @ + pop[p].j,
                          ![p].i = @ + BATCH_SIZE, ![p].j = 0]
    /\ UNCHANGED <<cols, notPop>>

\* The loop of update_umap_coordinates is over; verify_population reads and
\* prints its statistics; main closes the connection and prints its Success
\* message, or its Error message when the printing raised.
PopVerify(p) ==
    /\ pop[p].pc = "updating"
    /\ pop[p].i >= Len(pop[p].ids)
    /\ LET stats == VerifyPopulation(db)
       IN  pop' = [pop EXCEPT
                ![p].stats = stats,
                ![p].pc = IF stats.err = "none" THEN "success" ELSE "failed",
                ![p].out = Append(@, IF stats.err = "none" THEN "Success"
                                     ELSE "Error")]
    /\ UNCHANGED <<db, cols, notPop>>

\* A statement raises (psycopg2.Error, or any exception of the projection),
\* or the process is killed: main ends through sys.exit(1) without commit, so
\* the server rolls the open transaction back.
PopFail(p) ==
    /\ pop[p].pc \in {"connected", "fetched", "updating"}
    /\ pop' = [pop EXCEPT ![p].pc = "failed", ![p].txn = <<>>, ![p].j = 0,
                          ![p].out = Append(@, "Error")]
    /\ UNCHANGED <<db, cols, notPop>>

PopNext(p) ==
    \/ PopConnect(p)
    \/ PopFetch(p)
    \/ PopCompute(p)
    \/ PopExecute(p)
    \/ PopCommit(p)
    \/ PopVerify(p)
    \/ PopFail(p)

\* ----------------------------------------------------------------- writers
\* The three coordinate writers as functions from the table before to the
\* table after a whole, uninterrupted application.
Writers == {"populate", "step03", "reduce"}

\* populate update_umap_coordinates: batch after batch from offset i, each
\* batch's statements committed together.
RECURSIVE PopulateWriter(_, _, _, _, _)
PopulateWriter(t, ids, coords_2d, coords_3d, i) ==
    IF i >= Len(ids) THEN t
    ELSE LET batch_end == Min(i + BATCH_SIZE, Len(ids))
             batch_data == [k \in 1..(batch_end - i) |->
                               BatchRow(ids, coords_2d, coords_3d, i + k)]
         IN  PopulateWriter(ApplyStatements(t, batch_data), ids, coords_2d,
                            coords_3d, i + BATCH_SIZE)

\* 03 update_umap_coordinates: one autocommitted statement per row.
Step3Writer(t, metadata, umap_2d, umap_3d) ==
    ApplyStatements(t, [k \in 1..Len(metadata) |->
                           Step3Statement(metadata, umap_2d, umap_3d, k)])

\* umap-reduce update_database: one statement per record, one commit.
ReduceWriter(t, data, umap_2d, umap_3d) ==
    ApplyHashStatements(t, [k \in 1..Len(data) |->
                               ReduceStatement(data, umap_2d, umap_3d, k)])

ApplyWriter(writer, t, ids, coords_2d, coords_3d) ==
    CASE writer = "populate" -> PopulateWriter(t, ids, coords_2d, coords_3d, 0)
      [] writer = "step03" -> Step3Writer(t, ids, coords_2d, coords_3d)
      [] writer = "reduce" ->
            ReduceWriter(t, [k \in 1..Len(ids) |-> [value_hash |-> ValueHash(ids[k])]],
                         coords_2d, coords_3d)

\* The arguments a writer can be called with: the ids of some records in the
\* order its script reads them, and the projections of their vectors.
WriterArguments(writer) ==
    { LET ids == IF writer = "reduce" THEN OrderByValueHash(S) ELSE OrderById(S)
          matrix == [k \in 1..Len(ids) |-> VectorOf(ids[k])]
      IN  [writer |-> writer, ids |-> ids,
           coords_2d |-> FitTransform(2, matrix),
           coords_3d |-> FitTransform(3, matrix),
           applied |-> 0, first |-> <<>>] :
        S \in SUBSET Ids \ {{}} }

\* The writer is applied to the table with the arguments it was given;
\* first keeps the table the first application left.
WriterApply(writer) ==
    /\ wr.writer = writer
    /\ wr.applied < MaxRuns
    /\ db' = ApplyWriter(writer, db, wr.ids, wr.coords_2d, wr.coords_3d)
    /\ wr' = [wr EXCEPT ![("applied")] = @ + 1,
                        ![("first")] = IF wr.applied = 0 THEN db' ELSE @]
    /\ UNCHANGED notWr

\* ========================================================== specifications
\* A writer applied again and again with the same arguments to a table that
\* holds any of the records, the written ones or not, in any coordinate
\* state.
InitWriter ==
    /\ \E T \in SUBSET Ids : db \in InitTables(T)
    /\ cols = CoordColSet
    /\ ddlLock = 0
    /\ pop = [p \in PopProcs |-> PopIdle]
    /\ files = NoFiles
    /\ s3 = [q \in DbProcs |-> S3Idle]
    /\ red = [q \in DbProcs |-> RedIdle]
    /\ tsv = NoTsv
    /\ s1 = S1Idle
    /\ s2 = S2Idle
    /\ s4 = S4Idle
    /\ pipe = PipeIdle(AllSteps)
    /\ \E writer \in Writers : wr \in WriterArguments(writer)
    /\ audit = AuditIdle
    /\ meta = PlainMeta

NextWriter == \E writer \in Writers : WriterApply(writer)

SpecWriter == InitWriter /\ [][NextWriter]_vars

\* One run after another of populate-umap-coordinates.py, nothing else
\* writing to the table, from any table with all five columns.
InitPopulate ==
    /\ db \in InitTables(Ids)
    /\ cols = CoordColSet
    /\ ddlLock = 0
    /\ pop = [p \in PopProcs |-> PopIdle]
    /\ files = NoFiles
    /\ s3 = [q \in DbProcs |-> S3Idle]
    /\ red = [q \in DbProcs |-> RedIdle]
    /\ tsv = NoTsv
    /\ s1 = S1Idle
    /\ s2 = S2Idle
    /\ s4 = S4Idle
    /\ wr = WrIdle
    /\ audit = AuditIdle
    /\ meta = PlainMeta
    /\ pipe = PipeIdle(AllSteps)

NextPopulate == \E p \in PopProcs : PopNext(p)

SpecPopulate == InitPopulate /\ [][NextPopulate]_vars

\* Two invocations of populate-umap-coordinates.py at the same time, each
\* on its own connection to the same table; every record has its vector.
InitConcurrent ==
    /\ db \in { [id \in Ids |-> Row(VectorOf(id), f[id])] :
                 f \in [Ids -> InitCoords] }
    /\ cols = CoordColSet
    /\ ddlLock = 0
    /\ pop = [p \in DbProcs |-> PopIdle]
    /\ files = NoFiles
    /\ s3 = [q \in DbProcs |-> S3Idle]
    /\ red = [q \in DbProcs |-> RedIdle]
    /\ tsv = NoTsv
    /\ s1 = S1Idle
    /\ s2 = S2Idle
    /\ s4 = S4Idle
    /\ wr = WrIdle
    /\ audit = AuditIdle
    /\ meta = PlainMeta
    /\ pipe = PipeIdle(AllSteps)

NextConcurrent ==
    \/ \E p \in DbProcs : pop[p].runs = 0 /\ PopConnect(p)
    \/ \E p \in DbProcs : PopFetch(p)
    \/ \E p \in DbProcs : PopCompute(p)
    \/ \E p \in DbProcs : PopExecute(p)
    \/ \E p \in DbProcs : PopCommit(p)
    \/ \E p \in DbProcs : PopVerify(p)
    \/ \E p \in DbProcs : PopFail(p)

SpecConcurrent == InitConcurrent /\ [][NextConcurrent]_vars

\* The coordinate states of a record with a vector that the writers cannot
\* leave but other tools or manual changes can.
PartialCoords ==
    { <<OLD, NULL, NULL, NULL, NULL>>,
      <<OLD, OLD, OLD, OLD, NULL>> }

\* populate-umap-coordinates.py and the verification tools on one table,
\* which may be empty and may have records in any of the coordinate states
\* above; the tools run at any moment of a populate run, MaxRuns runs in
\* all.
InitAudit ==
    /\ \E S \in SUBSET Ids :
            db \in InitTables(S) \cup
                   { [id \in S |-> Row(VectorOf(id), f[id])] :
                        f \in [S -> InitCoords \cup PartialCoords] }
    /\ cols = CoordColSet
    /\ ddlLock = 0
    /\ pop = [p \in PopProcs |-> PopIdle]
    /\ files = NoFiles
    /\ s3 = [q \in DbProcs |-> S3Idle]
    /\ red = [q \in DbProcs |-> RedIdle]
    /\ tsv = NoTsv
    /\ s1 = S1Idle
    /\ s2 = S2Idle
    /\ s4 = S4Idle
    /\ wr = WrIdle
    /\ audit = AuditIdle
    /\ meta = PlainMeta
    /\ pipe = PipeIdle(AllSteps)

\* Runs of populate-umap-coordinates.py and of the tools started so far.
AuditBudget == SumRuns(pop) + audit.runs < MaxRuns

NextAudit ==
    \/ AuditBudget /\ PopConnect(1)
    \/ PopFetch(1)
    \/ PopCompute(1)
    \/ PopExecute(1)
    \/ PopCommit(1)
    \/ PopVerify(1)
    \/ PopFail(1)
    \/ \E tool \in AuditTools : AuditBudget /\ RunVerification(tool)

SpecAudit == InitAudit /\ [][NextAudit]_vars

\* Two processes calling ensure_umap_columns, each on its own connection,
\* on a table that has any subset of the five columns.
InitEnsure ==
    /\ cols \in SUBSET CoordColSet
    /\ db \in InitTablesFor(Ids, cols)
    /\ ddlLock = 0
    /\ pop = [p \in PopProcs |-> PopIdle]
    /\ files = NoFiles
    /\ s3 = [q \in DbProcs |-> S3Idle]
    /\ red = [q \in DbProcs |-> RedIdle]
    /\ tsv = NoTsv
    /\ s1 = S1Idle
    /\ s2 = S2Idle
    /\ s4 = S4Idle
    /\ wr = WrIdle
    /\ audit = AuditIdle
    /\ meta = PlainMeta
    /\ pipe = PipeIdle(AllSteps)

NextEnsure ==
    \E q \in DbProcs :
        \/ S3CallEnsure(q)
        \/ S3Check(q)
        \/ S3Alter(q)
        \/ S3Ensured(q)
        \/ S3Fail(q)

SpecEnsure == InitEnsure /\ [][NextEnsure]_vars

\* The actions of the step scripts once started.
StepsNext ==
    \/ S1Extract
    \/ S1SaveEmbeddings
    \/ S1SaveMetadata
    \/ S1Fail
    \/ S2Reduce2d
    \/ S2Reduce3d
    \/ S2Combine
    \/ S2Fail
    \/ S3Check(1)
    \/ S3Alter(1)
    \/ S3Ensured(1)
    \/ S3UpdateRow(1)
    \/ S3UpdateRowFailed(1)
    \/ S3Verify(1)
    \/ S3Fail(1)
    \/ S4Done
    \/ S4Fail

\* Tables the pipeline can start from: any set of records, each with its
\* vector; no coordinate column yet, or all five.
InitPipelineStore ==
    /\ cols \in {{}, CoordColSet}
    /\ \E S \in SUBSET Ids : db \in InitTablesFor(S, cols)
    /\ ddlLock = 0
    /\ pop = [p \in PopProcs |-> PopIdle]
    /\ files = NoFiles
    /\ s3 = [q \in DbProcs |-> S3Idle]
    /\ red = [q \in DbProcs |-> RedIdle]
    /\ tsv = NoTsv
    /\ s1 = S1Idle
    /\ s2 = S2Idle
    /\ s4 = S4Idle
    /\ wr = WrIdle
    /\ audit = AuditIdle
    /\ meta = PlainMeta

\* run_pipeline.py, one run after another, in a directory that has the four
\* step scripts or lacks one of them.
InitPipeline ==
    /\ InitPipelineStore
    /\ \E scripts \in {AllSteps} \cup {AllSteps \ {n} : n \in AllSteps} :
            pipe = PipeIdle(scripts)

NextPipeline ==
    \/ PipeStart
    \/ PipeRunScript
    \/ PipeRunScriptError
    \/ PipeScriptEnded
    \/ PipeAfterStep
    \/ StepsNext

SpecPipeline == InitPipeline /\ [][NextPipeline]_vars

\* One run of run_pipeline.py in a directory that has the four scripts and,
\* when it failed at a step, that step and the following ones run by hand.
InitResume ==
    /\ InitPipelineStore
    /\ pipe = PipeIdle(AllSteps)

NextResume ==
    \/ pipe.runs = 0 /\ PipeStart
    \/ PipeRunScript
    \/ PipeRunScriptError
    \/ PipeScriptEnded
    \/ PipeAfterStep
    \/ StepsNext
    \/ ResumeStep
    \/ ResumeStepEnded

SpecResume == InitResume /\ [][NextResume]_vars

\* One run of run_pipeline.py over a table that already has some of the
\* five coordinate columns (InitEnsure), as ensure_umap_columns provides
\* for: it adds the missing ones.
NextUpgrade ==
    \/ pipe.runs = 0 /\ PipeStart
    \/ PipeRunScript
    \/ PipeRunScriptError
    \/ PipeScriptEnded
    \/ PipeAfterStep
    \/ StepsNext

SpecUpgrade == InitEnsure /\ [][NextUpgrade]_vars

\* The three programs that project, one run after another: a table with
\* the five columns whose records hold a vector, of the common length or a
\* shorter one, and all of them no coordinates or all earlier ones.
InitProjection ==
    /\ cols = CoordColSet
    /\ \E f \in [Ids -> BOOLEAN], c \in {NULL, OLD} :
            db = [id \in Ids |->
                    Row(IF f[id] THEN VectorOf(id) ELSE TruncatedVector(id),
                        [k \in 1..5 |-> c])]
    /\ ddlLock = 0
    /\ pop = [p \in PopProcs |-> PopIdle]
    /\ files = NoFiles
    /\ s3 = [q \in DbProcs |-> S3Idle]
    /\ red = [q \in DbProcs |-> RedIdle]
    /\ tsv = NoTsv
    /\ s1 = S1Idle
    /\ s2 = S2Idle
    /\ s4 = S4Idle
    /\ wr = WrIdle
    /\ audit = AuditIdle
    /\ meta = PlainMeta
    /\ pipe = PipeIdle(AllSteps)

\* No program is running and fewer than MaxRuns have been started.
Serial ==
    /\ SumRuns(pop) + SumRuns(red) + pipe.runs < MaxRuns
    /\ \A p \in PopProcs : pop[p].pc \in PopTerminal
    /\ \A q \in DbProcs : red[q].pc \in RedTerminal
    /\ pipe.pc \in PipeTerminal

NextProjection ==
    \/ Serial /\ PopConnect(1)
    \/ PopFetch(1)
    \/ PopCompute(1)
    \/ PopExecute(1)
    \/ PopCommit(1)
    \/ PopVerify(1)
    \/ PopFail(1)
    \/ Serial /\ RedStart(1)
    \/ RedSchemaCheck(1)
    \/ RedFetch(1)
    \/ RedUmap(1)
    \/ RedUpdateRow(1)
    \/ RedCommit(1)
    \/ RedExportOpen(1)
    \/ RedExportWrite(1)
    \/ RedFail(1)
    \/ Serial /\ PipeStart
    \/ PipeRunScript
    \/ PipeRunScriptError
    \/ PipeScriptEnded
    \/ PipeAfterStep
    \/ StepsNext

SpecProjection == InitProjection /\ [][NextProjection]_vars

\* One of the two whole-table scripts run again and again by one operator,
\* nothing else writing to the table: populate-umap-coordinates.py on a
\* table with the five columns, or umap-reduce.py on a table with or
\* without them.
InitRerun ==
    /\ cols \in {{}, CoordColSet}
    /\ db \in IF cols = {} THEN {t \in InitTables(Ids) :
                                   \A id \in Ids : Coords(t[id]) = [c \in 1..5 |-> NULL]}
              ELSE InitTables(Ids)
    /\ ddlLock = 0
    /\ pop = [p \in PopProcs |-> PopIdle]
    /\ files = NoFiles
    /\ s3 = [q \in DbProcs |-> S3Idle]
    /\ red = [q \in DbProcs |-> RedIdle]
    /\ tsv = NoTsv
    /\ s1 = S1Idle
    /\ s2 = S2Idle
    /\ s4 = S4Idle
    /\ wr = WrIdle
    /\ audit = AuditIdle
    /\ meta = PlainMeta
    /\ pipe = PipeIdle(AllSteps)

\* The operator uses populate-umap-coordinates.py and nothing else ...
PopulateOnly == SumRuns(red) = 0 /\ cols = CoordColSet
\* ... or umap-reduce.py and nothing else.
ReduceOnly == SumRuns(pop) = 0

NextRerun ==
    \/ PopulateOnly /\ PopConnect(1)
    \/ PopulateOnly /\ PopFetch(1)
    \/ PopulateOnly /\ PopCompute(1)
    \/ PopulateOnly /\ PopExecute(1)
    \/ PopulateOnly /\ PopCommit(1)
    \/ PopulateOnly /\ PopVerify(1)
    \/ PopulateOnly /\ PopFail(1)
    \/ ReduceOnly /\ RedStart(1)
    \/ ReduceOnly /\ RedSchemaCheck(1)
    \/ ReduceOnly /\ RedSchemaAlter(1)
    \/ ReduceOnly /\ RedSchemaCommit(1)
    \/ ReduceOnly /\ RedFetch(1)
    \/ ReduceOnly /\ RedUmap(1)
    \/ ReduceOnly /\ RedUpdateRow(1)
    \/ ReduceOnly /\ RedCommit(1)
    \/ ReduceOnly /\ RedExportOpen(1)
    \/ ReduceOnly /\ RedExportWrite(1)
    \/ ReduceOnly /\ RedFail(1)

SpecRerun == InitRerun /\ [][NextRerun]_vars

\* An operator runs one step script by hand (uv run <script>), one script
\* at a time.
ManualStep(n) ==
    /\ pipe.pc = "idle"
    /\ \A m \in AllSteps : StepPc(m) \in StepTerminal
    /\ StepRuns(1) + StepRuns(2) + StepRuns(3) + StepRuns(4) < MaxManual
    /\ StepStart(n)
    /\ UNCHANGED pipe

\* The application that owns the table adds a record (serial ids grow; the
\* new row has its vector and no coordinates) ...
InsertRecord(id) ==
    /\ id \notin DOMAIN db
    /\ \A other \in DOMAIN db : other < id
    /\ db' = [i \in DOMAIN db \cup {id} |->
                IF i = id THEN Row(VectorOf(id), [c \in 1..5 |-> NULL]) ELSE db[i]]
    /\ UNCHANGED <<cols, ddlLock, pop, files, s3, red, tsv, s1, s2, s4, pipe, wr, audit, meta>>

\* ... or deletes one.
DeleteRecord(id) ==
    /\ id \in DOMAIN db
    /\ db' = [i \in DOMAIN db \ {id} |-> db[i]]
    /\ UNCHANGED <<cols, ddlLock, pop, files, s3, red, tsv, s1, s2, s4, pipe, wr, audit, meta>>

\* The step scripts run one at a time by hand, in any order, on a table
\* whose record set changes between and during the runs.
InitSteps ==
    /\ InitPipelineStore
    /\ pipe = PipeIdle(AllSteps)

NextSteps ==
    \/ \E n \in AllSteps : ManualStep(n)
    \/ StepsNext
    \/ \E id \in Ids : InsertRecord(id)
    \/ \E id \in Ids : DeleteRecord(id)

SpecSteps == InitSteps /\ [][NextSteps]_vars

\* Runs of populate-umap-coordinates.py on a table from which another
\* client deletes records, between and during the runs.
NextChurn ==
    \/ \E p \in PopProcs : PopNext(p)
    \/ \E id \in Ids : DeleteRecord(id)

\* Steps 02 and 03 run by hand in a data directory left by earlier runs:
\* each of the four files is absent, or holds the rows of all records, or
\* of all but the last.
StaleFiles ==
    LET Kept(n) == [k \in 1..n |-> k]
        Vectors(n) == [k \in 1..n |-> VectorOf(k)]
        Lengths == {NumIds - 1, NumIds}
    IN  [embeddings_npy : {NoFile} \cup {File(Vectors(n)) : n \in Lengths},
         metadata_csv : {NoFile} \cup {File(Kept(n)) : n \in Lengths},
         umap_2d_npy : {NoFile}
                \cup {File(FitTransform(2, Vectors(n))) : n \in Lengths},
         umap_3d_npy : {NoFile}
                \cup {File(FitTransform(3, Vectors(n))) : n \in Lengths}]

InitStandalone ==
    /\ cols \in {{}, CoordColSet}
    /\ db = [id \in Ids |-> Row(VectorOf(id), [k \in 1..5 |-> NULL])]
    /\ ddlLock = 0
    /\ pop = [p \in PopProcs |-> PopIdle]
    /\ files \in StaleFiles
    /\ s3 = [q \in DbProcs |-> S3Idle]
    /\ red = [q \in DbProcs |-> RedIdle]
    /\ tsv = NoTsv
    /\ s1 = S1Idle
    /\ s2 = S2Idle
    /\ s4 = S4Idle
    /\ wr = WrIdle
    /\ audit = AuditIdle
    /\ meta = PlainMeta
    /\ pipe = PipeIdle(AllSteps)

NextStandalone ==
    \/ \E n \in {2, 3} : s2.runs + s3[1].runs < MaxRuns /\ ManualStep(n)
    \/ S2Reduce2d
    \/ S2Reduce3d
    \/ S2Combine
    \/ S2Fail
    \/ S3Check(1)
    \/ S3Alter(1)
    \/ S3Ensured(1)
    \/ S3UpdateRow(1)
    \/ S3UpdateRowFailed(1)
    \/ S3Verify(1)
    \/ S3Fail(1)

SpecStandalone == InitStandalone /\ [][NextStandalone]_vars

SpecChurn == InitPopulate /\ [][NextChurn]_vars

\* populate-umap-coordinates.py invoked again and again on a table whose
\* records all have their vector; a run may fail at any step until the
\* MaxRuns-th invocation, from which on no step fails, and a step that can
\* be taken is taken.
InitReinvoke ==
    /\ db \in { [id \in Ids |-> Row(VectorOf(id), f[id])] :
                 f \in [Ids -> InitCoords] }
    /\ cols = CoordColSet
    /\ ddlLock = 0
    /\ pop = [p \in PopProcs |-> PopIdle]
    /\ files = NoFiles
    /\ s3 = [q \in DbProcs |-> S3Idle]
    /\ red = [q \in DbProcs |-> RedIdle]
    /\ tsv = NoTsv
    /\ s1 = S1Idle
    /\ s2 = S2Idle
    /\ s4 = S4Idle
    /\ wr = WrIdle
    /\ audit = AuditIdle
    /\ meta = PlainMeta
    /\ pipe = PipeIdle(AllSteps)

\* One more invocation after the MaxRuns counted ones: the count stays and
\* the output of the earlier runs is no longer kept.
PopConnectAgain(p) ==
    /\ pop[p].pc \in PopTerminal
    /\ pop[p].runs = MaxRuns
    /\ pop' = [pop EXCEPT ![p].pc = "connected", ![p].txn = <<>>, ![p].j = 0,
                          ![p].stats = <<>>, ![p].out = <<>>]
    /\ UNCHANGED <<db, cols, notPop>>

NextReinvoke ==
    \/ PopConnect(1)
    \/ PopConnectAgain(1)
    \/ PopFetch(1)
    \/ PopCompute(1)
    \/ PopExecute(1)
    \/ PopCommit(1)
    \/ PopVerify(1)
    \/ pop[1].runs < MaxRuns /\ PopFail(1)

SpecReinvoke ==
    /\ InitReinvoke
    /\ [][NextReinvoke]_vars
    /\ WF_vars(PopConnect(1))
    /\ WF_vars(PopConnectAgain(1))
    /\ WF_vars(PopFetch(1))
    /\ WF_vars(PopCompute(1))
    /\ WF_vars(PopExecute(1))
    /\ WF_vars(PopCommit(1))
    /\ WF_vars(PopVerify(1))

\* No script is running, and at most MaxRuns have been run (MaxRuns + 1
\* runs in all: steps 01, 02, 03 and more).
Quiet ==
    /\ SumRuns(pop) + SumRuns(red) + SumRuns(s3) + s1.runs + s2.runs + s4.runs
            <= MaxRuns
    /\ \A p \in PopProcs : pop[p].pc \in PopTerminal
    /\ \A q \in DbProcs : red[q].pc \in RedTerminal
    /\ \A n \in AllSteps : StepPc(n) \in S3Terminal

\* The three writers on one table: populate-umap-coordinates.py,
\* umap-reduce.py and the pipeline's steps, each run by hand, one script at
\* a time, every run free to fail at any statement. The table has the five
\* columns and every row has all of its coordinates or none.
InitWriters ==
    /\ cols = CoordColSet
    /\ db \in InitTablesFor(Ids, cols)
    /\ ddlLock = 0
    /\ pop = [p \in PopProcs |-> PopIdle]
    /\ files = NoFiles
    /\ s3 = [q \in DbProcs |-> S3Idle]
    /\ red = [q \in DbProcs |-> RedIdle]
    /\ tsv = NoTsv
    /\ s1 = S1Idle
    /\ s2 = S2Idle
    /\ s4 = S4Idle
    /\ wr = WrIdle
    /\ audit = AuditIdle
    /\ meta = PlainMeta
    /\ pipe = PipeIdle(AllSteps)

NextWriters ==
    \/ Quiet /\ PopConnect(1)
    \/ PopFetch(1)
    \/ PopCompute(1)
    \/ PopExecute(1)
    \/ PopCommit(1)
    \/ PopVerify(1)
    \/ PopFail(1)
    \/ Quiet /\ RedStart(1)
    \/ RedSchemaCheck(1)
    \/ RedFetch(1)
    \/ RedUmap(1)
    \/ RedUpdateRow(1)
    \/ RedCommit(1)
    \/ RedExportOpen(1)
    \/ RedExportWrite(1)
    \/ RedFail(1)
    \/ \E n \in 1..3 : Quiet /\ ManualStep(n)
    \/ S1Extract
    \/ S1SaveEmbeddings
    \/ S1SaveMetadata
    \/ S1Fail
    \/ S2Reduce2d
    \/ S2Reduce3d
    \/ S2Combine
    \/ S2Fail
    \/ S3Check(1)
    \/ S3Alter(1)
    \/ S3Ensured(1)
    \/ S3UpdateRow(1)
    \/ S3UpdateRowFailed(1)
    \/ S3Verify(1)
    \/ S3Fail(1)

SpecWriters == InitWriters /\ [][NextWriters]_vars

\* The texts a text column of record id may hold: printable text, or text
\* with an embedded tab, line feed or carriage return.
DirtyTexts(name, id) ==
    { << <<name, id>> >>,
      << <<name, id>>, TAB, <<name, id>> >>,
      << <<name, id>>, LF >>,
      << CR, <<name, id>> >> }

\* umap-reduce.py run on a table of records with vectors and without
\* coordinates, one of which may hold separators in its text columns.
InitExport ==
    /\ cols = CoordColSet
    /\ \E S \in SUBSET Ids : db = [id \in S |-> Row(VectorOf(id), [k \in 1..5 |-> NULL])]
    /\ \E d \in Ids :
        \E value \in DirtyTexts("value", d) :
        \E source_table \in DirtyTexts("source_table", d) :
        \E source_column \in DirtyTexts("source_column", d) :
            meta = [PlainMeta EXCEPT ![d].value = value,
                                     ![d].source_table = source_table,
                                     ![d].source_column = source_column]
    /\ ddlLock = 0
    /\ pop = [p \in PopProcs |-> PopIdle]
    /\ files = NoFiles
    /\ s3 = [q \in DbProcs |-> S3Idle]
    /\ red = [q \in DbProcs |-> RedIdle]
    /\ tsv = NoTsv
    /\ s1 = S1Idle
    /\ s2 = S2Idle
    /\ s4 = S4Idle
    /\ wr = WrIdle
    /\ audit = AuditIdle
    /\ pipe = PipeIdle(AllSteps)

NextExport ==
    \/ RedStart(1)
    \/ RedSchemaCheck(1)
    \/ RedFetch(1)
    \/ RedUmap(1)
    \/ RedUpdateRow(1)
    \/ RedCommit(1)
    \/ RedExportOpen(1)
    \/ RedExportWrite(1)
    \/ RedFail(1)

SpecExport == InitExport /\ [][NextExport]_vars

\* The extraction of 01_extract_embeddings.py and umap-reduce.py over a
\* table in which a record's vector is well formed, missing, malformed text
\* or truncated; no coordinate has been written yet. Scripts are run by
\* hand, one at a time.
InitExtract ==
    /\ cols = CoordColSet
    /\ \E e \in [Ids -> {"vector", "missing", "malformed", "truncated"}] :
            db = [id \in Ids |->
                    Row(CASE e[id] = "vector" -> VectorOf(id)
                          [] e[id] = "missing" -> NULL
                          [] e[id] = "malformed" -> MalformedVector(id)
                          [] e[id] = "truncated" -> TruncatedVector(id),
                        [k \in 1..5 |-> NULL])]
    /\ ddlLock = 0
    /\ pop = [p \in PopProcs |-> PopIdle]
    /\ files = NoFiles
    /\ s3 = [q \in DbProcs |-> S3Idle]
    /\ red = [q \in DbProcs |-> RedIdle]
    /\ tsv = NoTsv
    /\ s1 = S1Idle
    /\ s2 = S2Idle
    /\ s4 = S4Idle
    /\ wr = WrIdle
    /\ audit = AuditIdle
    /\ meta = PlainMeta
    /\ pipe = PipeIdle(AllSteps)

NextExtract ==
    \/ Quiet /\ RedStart(1)
    \/ RedSchemaCheck(1)
    \/ RedFetch(1)
    \/ RedUmap(1)
    \/ RedUpdateRow(1)
    \/ RedCommit(1)
    \/ RedExportOpen(1)
    \/ RedExportWrite(1)
    \/ RedFail(1)
    \/ \E n \in 1..3 : Quiet /\ ManualStep(n)
    \/ S1Extract
    \/ S1SaveEmbeddings
    \/ S1SaveMetadata
    \/ S1Fail
    \/ S2Reduce2d
    \/ S2Reduce3d
    \/ S2Combine
    \/ S2Fail
    \/ S3Check(1)
    \/ S3Alter(1)
    \/ S3Ensured(1)
    \/ S3UpdateRow(1)
    \/ S3UpdateRowFailed(1)
    \/ S3Verify(1)
    \/ S3Fail(1)

SpecExtract == InitExtract /\ [][NextExtract]_vars

\* Two processes calling add_umap_columns, each on its own connection, on a
\* table that has any subset of the five columns.
InitAddColumns == InitEnsure

NextAddColumns ==
    \E q \in DbProcs :
        \/ RedCallAdd(q)
        \/ RedSchemaCheck(q)
        \/ RedSchemaAlter(q)
        \/ RedSchemaCommit(q)
        \/ RedFail(q)

SpecAddColumns == InitAddColumns /\ [][NextAddColumns]_vars

\* Both schema guards on one table: ensure_umap_columns of
\* 03_update_database.py on one connection and add_umap_columns of
\* umap-reduce.py on another, MaxRuns calls in all, in any interleaving,
\* from any subset of the five columns.
SchemaCalls == SumRuns(s3) + SumRuns(red)

NextSchema ==
    \/ SchemaCalls < MaxRuns /\ S3CallEnsure(1)
    \/ S3Check(1)
    \/ S3Alter(1)
    \/ S3Ensured(1)
    \/ S3Fail(1)
    \/ SchemaCalls < MaxRuns /\ RedCallAdd(2)
    \/ RedSchemaCheck(2)
    \/ RedSchemaAlter(2)
    \/ RedSchemaCommit(2)
    \/ RedFail(2)

SpecSchema == InitEnsure /\ [][NextSchema]_vars

\* =================================================================== claims

\* The coordinates this run computed for row j of its batch.
RunCoords(p, j) ==
    Tail(BatchRow(pop[p].ids, pop[p].coords_2d, pop[p].coords_3d, j))

\* The process holds the projection of a non-empty fetch.
HasRunCoords(p) ==
    /\ pop[p].ids # <<>>
    /\ Len(pop[p].coords_2d) = Len(pop[p].ids)
    /\ Len(pop[p].coords_3d) = Len(pop[p].ids)

AllCoordsPresent(row) == \A k \in 1..5 : Coords(row)[k] # NULL

\* Offsets of the batches of a run over n rows: range(0, n, BATCH_SIZE).
BatchOffsets(n) == {b \in 0..(n - 1) : b % BATCH_SIZE = 0}

BatchIndexes(b, n) == (b + 1)..Min(b + BATCH_SIZE, n)

\* C2 (as claimed): whenever a populate-umap-coordinates run has ended with
\* its Success message, every record that has a vector has all five
\* coordinate columns non-null, whatever the store was before the run.
C2_CompleteAfterSuccess ==
    \A p \in PopProcs :
        pop[p].pc = "success" =>
            \A id \in DOMAIN db :
                db[id].embedding_small # NULL => AllCoordsPresent(db[id])

\* C3: per-batch atomicity of update_umap_coordinates. In every state, for
\* every batch of the run, either every row of the batch carries the
\* coordinates this run computed for it, or no row of the batch does.
C3_BatchAtomic ==
    \A p \in PopProcs :
        HasRunCoords(p) =>
            \A b \in BatchOffsets(Len(pop[p].ids)) :
                LET js == BatchIndexes(b, Len(pop[p].ids))
                IN  \/ \A j \in js : Coords(db[pop[p].ids[j]]) = RunCoords(p, j)
                    \/ \A j \in js : Coords(db[pop[p].ids[j]]) # RunCoords(p, j)

\* A run that failed after its first batch was committed and before its last
\* one was: the first batch is in the table, the last is not (atomic per
\* batch, not across batches).
C3_Witness ==
    \E p \in PopProcs :
        /\ HasRunCoords(p)
        /\ pop[p].pc = "failed"
        /\ Len(pop[p].ids) > BATCH_SIZE
        /\ \A j \in 1..BATCH_SIZE : Coords(db[pop[p].ids[j]]) = RunCoords(p, j)
        /\ \A j \in (BATCH_SIZE + 1)..Len(pop[p].ids) :
                Coords(db[pop[p].ids[j]]) # RunCoords(p, j)

\* The rows of the batches a run has committed: those before offset i.
CommittedIndexes(p) == 1..Min(pop[p].i, Len(pop[p].ids))

\* C4: partial-batch durability. (1) When a run has failed, the rows of the
\* batches before the failing one hold the coordinates written for them.
\* (2) The fetch of the next invocation returns none of those rows. (3) No
\* step of any run changes a committed row that already has coordinates.
C4_PartialBatchDurability ==
    /\ [](\A p \in PopProcs :
            (pop[p].pc = "failed" /\ HasRunCoords(p)) =>
                \A j \in CommittedIndexes(p) :
                    Coords(db[pop[p].ids[j]]) = RunCoords(p, j))
    /\ [][\A p \in PopProcs :
            (/\ pop[p].pc = "connected"
             /\ HasRunCoords(p)
             /\ \/ pop'[p].pc \in {"fetched", "nothing"}
                \/ pop'[p].ids # pop[p].ids) =>
                \A j \in CommittedIndexes(p) :
                    pop[p].ids[j] \notin Range(pop'[p].ids)]_vars
    /\ [][\A id \in DOMAIN db :
            db[id].umap_x_2d # NULL => (id \in DOMAIN db' /\ db'[id] = db[id])]_vars

\* The second invocation has fetched the rows the first one left, while the
\* first batch of the first invocation is in the table: the first
\* invocation failed at a later batch.
C4_Witness ==
    \E p \in PopProcs :
        /\ pop[p].pc = "fetched"
        /\ pop[p].out = <<"Error">>
        /\ \E id \in DOMAIN db : db[id].umap_x_2d \notin {NULL, OLD}

\* Column k of CoordCols holds axis ColAxis[k] of the ColDim[k]-dimensional
\* projection.
ColDim == <<2, 2, 3, 3, 3>>
ColAxis == <<1, 2, 1, 2, 3>>

\* The value v in column k of row id is NULL, was there before any run, or
\* is the projection of a matrix whose row is the vector of id.
ValueAligned(v, id, k) ==
    \/ v \in {NULL, OLD}
    \/ /\ v[1] = ColDim[k]
       /\ v[2] = ColAxis[k]
       /\ v[4] \in 1..Len(v[3])
       /\ v[3][v[4]] = VectorOf(id)

\* C5: writes are keyed by id and aligned. Row j of the matrix is the vector
\* of ids[j]; every statement issued pairs ids[j] with coords_2d[j] and
\* coords_3d[j]; and every coordinate in the table was computed from the
\* vector of the row that holds it.
C5_Alignment ==
    /\ \A p \in PopProcs :
        /\ pop[p].embeddings # <<>> =>
                \A j \in 1..Len(pop[p].ids) :
                    pop[p].embeddings[j] \in {NULL, VectorOf(pop[p].ids[j])}
        /\ \A k \in 1..Len(pop[p].txn) :
                LET j == pop[p].i + k
                IN  /\ pop[p].txn[k][1] = pop[p].ids[j]
                    /\ \A c \in 1..5 :
                         ValueAligned(pop[p].txn[k][c + 1], pop[p].ids[j], c)
    /\ \A id \in DOMAIN db :
            \A c \in 1..5 : ValueAligned(Coords(db[id])[c], id, c)

\* A completed run of more than one batch: rows of the first and of the last
\* batch hold this run's coordinates.
C5_Witness ==
    \E p \in PopProcs :
        /\ pop[p].pc = "success"
        /\ Len(pop[p].ids) > BATCH_SIZE
        /\ \A j \in 1..Len(pop[p].ids) :
                Coords(db[pop[p].ids[j]]) = RunCoords(p, j)

\* C7 (as claimed): two invocations of ensure_umap_columns, one after the
\* other or interleaved, never end in a duplicate-column error, and an
\* invocation that has returned leaves the table with all five columns.
C7_EnsureTwiceSafe ==
    \A q \in DbProcs :
        /\ s3[q].err # "DuplicateColumn"
        /\ s3[q].pc = "ensured" => cols = CoordColSet

\* Both processes are in, or have returned from, an invocation of
\* add_umap_columns in which they saw the same required column missing.
BothObservedAbsent ==
    /\ \A q \in DbProcs :
            red[q].runs >= 1 /\ red[q].pc \in {"schema_alter", "schema_done"}
    /\ \E c \in CoordColSet : \A q \in DbProcs : c \notin red[q].existing

\* C8 (as claimed): under every interleaving of two invocations of
\* add_umap_columns that both observe a column as absent, no invocation
\* fails with a duplicate-column error and, once both have returned, the
\* table has each of the five required columns; and an invocation that
\* follows a completed one on the same connection issues no DDL.
C8_AddColumnsConcurrentSafe ==
    /\ \A q \in DbProcs : red[q].err # "DuplicateColumn"
    /\ (BothObservedAbsent /\ \A q \in DbProcs : red[q].pc = "schema_done")
            => cols = CoordColSet
    /\ \A q \in DbProcs :
            (/\ red[q].runs >= 2
             /\ red[q].out # <<>>
             /\ Head(red[q].out) = "SchemaReady"
             /\ red[q].pc \in {"schema_alter", "schema_done"}) =>
                red[q].columns_to_add = <<>>

\* ------------------------------------------------------------- run_pipeline
\* C1: within one run of run_pipeline.main the steps are started in the
\* order 01, 02, 03, 04, each at most once; step k+1 is started only after
\* run_script returned success for step k; once a step has failed no later
\* step is started, and the step printed for retry is the step that failed.
\* The step scripts themselves run only while main waits for them, and are
\* started at most once per run of main.
C1_OrderedStopAtFirstFailure ==
    /\ \A k \in 1..Len(pipe.started) : pipe.started[k] = k
    /\ Len(pipe.started) <= 4
    /\ Len(pipe.returned) <= Len(pipe.started)
    /\ Len(pipe.started) <= Len(pipe.returned) + 1
    /\ \A k \in 1..Len(pipe.returned) :
            ~pipe.returned[k] => Len(pipe.started) = k
    /\ \A k \in 2..Len(pipe.started) : pipe.returned[k - 1]
    /\ pipe.retry # 0 =>
            /\ pipe.pc = "failed"
            /\ pipe.retry = Len(pipe.returned)
            /\ ~pipe.returned[pipe.retry]
    /\ (pipe.pc = "failed" /\ pipe.returned # <<>>) =>
            /\ ~pipe.returned[Len(pipe.returned)]
            /\ pipe.retry = Len(pipe.started)
    /\ pipe.pc = "complete" =>
            /\ pipe.started = <<1, 2, 3, 4>>
            /\ \A k \in 1..4 : pipe.returned[k]
    /\ \A n \in AllSteps :
            /\ StepRuns(n) <= pipe.runs
            /\ StepPc(n) \notin {"idle", "done", "failed"} =>
                    /\ pipe.pc = "waiting"
                    /\ pipe.idx = n
                    /\ Len(pipe.started) = n

\* Step 03 exited with a non-zero status after 01 and 02 succeeded: main
\* stopped there and printed 03 as the step to retry from.
C1_Witness ==
    /\ pipe.pc = "failed"
    /\ pipe.started = <<1, 2, 3>>
    /\ pipe.returned = <<TRUE, TRUE, FALSE>>
    /\ pipe.retry = 3
    /\ s3[1].pc = "failed"
    /\ s4.runs = 0

\* C6 (as claimed): across the file handoff, whatever the order of the step
\* invocations and whatever happens to the record set between them, every
\* statement step 03 is about to issue pairs an id with coordinates computed
\* from that id's vector, and so does every coordinate in the table.
C6_HandoffAlignment ==
    /\ \A q \in DbProcs :
            (s3[q].pc = "update" /\ s3[q].idx < Len(s3[q].metadata)) =>
                LET st == Step3Statement(s3[q].metadata, s3[q].umap_2d,
                                         s3[q].umap_3d, s3[q].idx + 1)
                IN  \A c \in 1..5 : ValueAligned(st[c + 1], st[1], c)
    /\ \A id \in DOMAIN db :
            \A c \in 1..5 : ValueAligned(Coords(db[id])[c], id, c)

\* -------------------------------------------------------------- second runs
\* What a completed run of umap-reduce.py leaves, as a function of the
\* vectors in the table: the records it reads, their projections, the
\* statements it commits and the lines of its three files.
RerunData ==
    LET ids == OrderByValueHash({id \in DOMAIN db : db[id].embedding_small # NULL})
    IN  [k \in 1..Len(ids) |-> DataRecord(db, ids[k])]

RerunMatrix == [k \in 1..Len(RerunData) |-> RerunData[k].embedding]

RerunTsv ==
    [embeddings_2d |-> File(TsvLines(1, RerunData, FitTransform(2, RerunMatrix),
                                     FitTransform(3, RerunMatrix))),
     embeddings_3d |-> File(TsvLines(2, RerunData, FitTransform(2, RerunMatrix),
                                     FitTransform(3, RerunMatrix))),
     metadata |-> File(TsvLines(3, RerunData, FitTransform(2, RerunMatrix),
                                FitTransform(3, RerunMatrix)))]

\* C10: on a table nobody else changes, a second run leaves what the first
\* left. populate-umap-coordinates: once a run has ended with its Success
\* message no later step changes the table, and the run after it ends with
\* "already have UMAP coordinates" (or an error before any write).
\* umap-reduce: once a run has completed no later step changes the table
\* (the second run commits the values the first committed), and at the end
\* of every completed run the three export files hold the same lines, those
\* determined by the vectors, which no step changes.
C10_SecondRunSame ==
    /\ [][\A p \in PopProcs :
            "Success" \in Range(pop[p].out) =>
                /\ db' = db
                /\ pop'[p].out # pop[p].out =>
                        pop'[p].out[Len(pop'[p].out)] \in {"AllDone", "Error"}]_vars
    /\ [][("Completed" \in Range(red[1].out)) => db' = db]_vars
    /\ [][\A id \in DOMAIN db :
            /\ id \in DOMAIN db'
            /\ db'[id].embedding_small = db[id].embedding_small]_vars
    /\ [](red[1].pc = "done" =>
            /\ tsv = RerunTsv
            /\ db = ApplyHashStatements(db,
                        [k \in 1..Len(RerunData) |->
                            ReduceStatement(RerunData, FitTransform(2, RerunMatrix),
                                            FitTransform(3, RerunMatrix), k)]))

\* populate-umap-coordinates.py wrote coordinates in its first run and found
\* nothing pending in its second.
PopulateRanTwice ==
    /\ pop[1].out = <<"Success", "AllDone">>
    /\ \E id \in DOMAIN db : db[id].umap_x_2d \notin {NULL, OLD}

\* umap-reduce.py has completed twice over more than one record, on a table
\* that had coordinates from elsewhere before.
C10_Witness ==
    /\ red[1].pc = "done"
    /\ red[1].runs = 2
    /\ Len(SelectSeq(red[1].out, LAMBDA o : o = "Completed")) = 2
    /\ Len(red[1].data) >= 2
    /\ \E id \in DOMAIN db : db[id].embedding_small = NULL /\ db[id].umap_x_2d = OLD

\* ------------------------------------------------------------------ writers
\* C9: each of the three writers is idempotent. After one application with
\* given ids and coordinates, applying it again with the same arguments
\* leaves the table as it is: the table after the second (and any later)
\* application is the table after the first, and every written row holds
\* the coordinates of the call (last write wins). The UPDATE statement has
\* no outcome for "already written".
C9_WriterIdempotent ==
    /\ wr.applied >= 1 =>
            /\ db = wr.first
            /\ ApplyWriter(wr.writer, db, wr.ids, wr.coords_2d, wr.coords_3d) = db
            /\ \A k \in 1..Len(wr.ids) :
                    wr.ids[k] \in DOMAIN db =>
                        Coords(db[wr.ids[k]]) =
                            wr.coords_2d[k] \o wr.coords_3d[k]

\* A writer applied twice over more than a batch of rows, some of which held
\* coordinates before and one of which is not in the table.
C9_Witness ==
    /\ wr.applied = 2
    /\ Len(wr.ids) > BATCH_SIZE
    /\ \E k \in 1..Len(wr.ids) : wr.ids[k] \notin DOMAIN db
    /\ \E id \in DOMAIN db : Coords(db[id]) \notin InitCoords

\* ---------------------------------------------------------- pending records
\* C11 (as claimed): a record with partial coordinate presence needs
\* reprocessing. Whenever fetch_embeddings of populate-umap-coordinates has
\* returned, every record that lacks any of the five coordinates is among
\* the ids it returned, in particular a record with umap_x_2d set and
\* umap_x_3d NULL.
C11_PartialIsPending ==
    \A p \in PopProcs :
        pop[p].pc \in {"fetched", "nothing"} =>
            \A id \in DOMAIN db :
                ~AllCoordsPresent(db[id]) => id \in Range(pop[p].ids)

\* ------------------------------------------------------------ whole rows
\* All five coordinates of the row, or none.
WholeRow(row) ==
    \/ \A k \in 1..5 : Coords(row)[k] = NULL
    \/ \A k \in 1..5 : Coords(row)[k] # NULL

\* The statement st (key, then five values) sets five coordinates.
WholeStatement(st) == Len(st) = 6 /\ \A k \in 2..6 : st[k] # NULL

\* C12: no writer performs a partial-row write. From a table in which every
\* row has all five coordinates or none, every reachable table is such a
\* table, wherever a run of populate-umap-coordinates, 03_update_database
\* or umap-reduce fails; and every statement a writer has pending in its
\* transaction, or is about to issue, sets all five columns.
C12_NoPartialRow ==
    /\ \A id \in DOMAIN db : WholeRow(db[id])
    /\ \A p \in PopProcs :
            \A k \in 1..Len(pop[p].txn) : WholeStatement(pop[p].txn[k])
    /\ \A q \in DbProcs :
            /\ \A k \in 1..Len(red[q].txn) : WholeStatement(red[q].txn[k])
            /\ (s3[q].pc = "update" /\ s3[q].idx < Len(s3[q].metadata)) =>
                    WholeStatement(Step3Statement(s3[q].metadata, s3[q].umap_2d,
                                                  s3[q].umap_3d, s3[q].idx + 1))

\* Step 03 was killed after it had written some rows and before others.
C12_Witness ==
    /\ s3[1].pc = "failed"
    /\ s3[1].updated >= 1
    /\ s3[1].idx < Len(s3[1].metadata)
    /\ \E id \in DOMAIN db : \A k \in 1..5 : Coords(db[id])[k] = NULL
    /\ \E id \in DOMAIN db : \A k \in 1..5 : Coords(db[id])[k] \notin {NULL, OLD}

\* ------------------------------------------------------------ batch failure
\* C13 (as claimed): in populate-umap-coordinates a batch whose commit fails
\* does not end the run. Whenever a run that got as far as writing batches
\* has ended, every batch was attempted (the loop reached the end of ids)
\* and the run's closing message is a success, full or degraded, not an
\* error.
C13_BatchFailureTolerated ==
    \A p \in PopProcs :
        (pop[p].pc \in PopTerminal /\ HasRunCoords(p)) =>
            /\ pop[p].i >= Len(pop[p].ids)
            /\ pop[p].out[Len(pop[p].out)] \in {"Success", "Degraded"}

\* -------------------------------------------------------------- exit status
\* C14: run_pipeline exits with status 0 exactly when all four steps were
\* executed and each returned success (successful_steps = 4, every step
\* script ended with status 0). With a step script missing it exits
\* non-zero and no step is executed at all; with a step that failed or
\* could not be launched it exits non-zero.
C14_ExitStatus ==
    /\ pipe.pc \in {"complete", "failed"} =>
            (PipeExitStatus(pipe.pc) = 0 <=>
                /\ pipe.started = <<1, 2, 3, 4>>
                /\ pipe.returned = <<TRUE, TRUE, TRUE, TRUE>>
                /\ pipe.successful_steps = 4)
    /\ pipe.pc = "complete" => \A n \in AllSteps : StepPc(n) = "done"
    /\ pipe.successful_steps =
            Len(SelectSeq(pipe.returned, LAMBDA r : r))
            - (IF pipe.pc = "returned" /\ pipe.returned[Len(pipe.returned)]
               THEN 1 ELSE 0)
    /\ ~(AllSteps \subseteq pipe.scripts) =>
            /\ pipe.started = <<>>
            /\ \A n \in AllSteps : StepRuns(n) = 0
            /\ pipe.pc \in {"idle", "failed"}
    /\ (\E k \in 1..Len(pipe.returned) : ~pipe.returned[k]) =>
            pipe.pc \in {"returned", "failed"}

\* A second run of the pipeline ended with status 0.
C14_Witness ==
    /\ pipe.pc = "complete"
    /\ pipe.runs = 2
    /\ pipe.successful_steps = 4
    /\ PipeExitStatus(pipe.pc) = 0

\* ------------------------------------------------------------------- C15
\* The table after steps 01, 02 and 03 have run on t with no failure: every
\* record with a vector holds the projection of the matrix of all vectors in
\* id order, at its own position. It depends on the vectors only, which no
\* step writes, so it is the same for the initial table and the current one.
UninterruptedStore(t) ==
    LET ids == ExtractIds(t)
        matrix == [k \in 1..Len(ids) |-> t[ids[k]].embedding_small]
        pos(id) == CHOOSE k \in 1..Len(ids) : ids[k] = id
    IN  [id \in DOMAIN t |->
            IF t[id].embedding_small = NULL THEN t[id]
            ELSE Row(t[id].embedding_small,
                     <<FitTransform(2, matrix)[pos(id)][1],
                       FitTransform(2, matrix)[pos(id)][2],
                       FitTransform(3, matrix)[pos(id)][1],
                       FitTransform(3, matrix)[pos(id)][2],
                       FitTransform(3, matrix)[pos(id)][3]>>)]

\* Step 03 has been run by hand after a failed pipeline run and has ended
\* with status 0 and no failed row.
Step3Resumed ==
    /\ pipe.pc = "failed"
    /\ pipe.retry \in 1..3
    /\ ~pipe.resuming
    /\ pipe.resume > 3
    /\ s3[1].pc = "done"
    /\ s3[1].failed = 0

\* C15: a failed step can be run again. When the pipeline has stopped at
\* step n (01, 02 or 03) and the operator has run step n and the following
\* steps by hand, each to status 0 and with no row failure in step 03, the
\* table is the one an uninterrupted run produces; this includes a step 03
\* that failed after it had written some rows. While the failed step is run
\* again no record ever holds a coordinate computed for another record.
C15_ResumeSameFinalStore ==
    /\ Step3Resumed => db = UninterruptedStore(db)
    /\ \A id \in DOMAIN db :
            \A c \in 1..5 : ValueAligned(Coords(db[id])[c], id, c)

\* Step 03 failed in the one pipeline run, was run again by hand and ended
\* after it had written every record of a table of several records.
C15_Witness ==
    /\ Step3Resumed
    /\ pipe.retry = 3
    /\ pipe.runs = 1
    /\ s3[1].runs = 2
    /\ s3[1].updated >= 2
    /\ Cardinality(DOMAIN db) >= 2

\* ------------------------------------------------------------------- C16
\* C16 (as claimed): what fetch_embeddings of populate-umap-coordinates
\* returns is exactly the set of records that lack a coordinate at the time
\* of the query, in strictly ascending id order, with row k of the matrix
\* the vector of ids[k]; and every statement the run queues is for one of
\* the fetched ids, so a record that had its coordinates is never written.
C16_FetchExactlyLacking ==
    \A p \in PopProcs :
        /\ pop[p].pc \in {"fetched", "nothing"} =>
                /\ Range(pop[p].ids) =
                        {id \in DOMAIN db : ~AllCoordsPresent(db[id])}
                /\ \A k \in 1..(Len(pop[p].ids) - 1) :
                        pop[p].ids[k] < pop[p].ids[k + 1]
                /\ \A k \in 1..Len(pop[p].embeddings) :
                        pop[p].embeddings[k] = db[pop[p].ids[k]].embedding_small
        /\ \A k \in 1..Len(pop[p].txn) : pop[p].txn[k][1] \in Range(pop[p].ids)

\* ------------------------------------------------------------------- C17
\* The records that have both their 2D and their 3D coordinates.
Projected(t) == {id \in DOMAIN t : AllCoordsPresent(t[id])}

\* C17 (as claimed): the batch the extraction builds holds only records
\* that lack coordinates. No record that has all five coordinates is in the
\* batch of 01_extract_embeddings or of umap-reduce fetch_embeddings, and
\* none is the target of a statement step 03 or umap-reduce is about to
\* issue.
C17_SkipsProjected ==
    /\ s1.pc = "save_embeddings" =>
            Range(s1.metadata) \cap Projected(db) = {}
    /\ \A q \in DbProcs :
            red[q].pc = "umap" =>
                \A k \in 1..Len(red[q].data) :
                    \A id \in Projected(db) :
                        red[q].data[k].value_hash # ValueHash(id)
    /\ \A q \in DbProcs :
            (s3[q].pc = "update" /\ s3[q].idx < Len(s3[q].metadata)) =>
                s3[q].metadata[s3[q].idx + 1] \notin Projected(db)

\* ------------------------------------------------------------------- C18
\* The records whose stored vector parses and has the full dimension.
WellFormedIds(t) == {id \in DOMAIN t : t[id].embedding_small = VectorOf(id)}

\* C18 (as claimed): a malformed, truncated or missing vector costs only
\* its own record. The extraction of 01_extract_embeddings and of
\* umap-reduce never ends in the error raised by such a vector; what it
\* extracts is exactly the records with a well formed vector; and a record
\* without one never gets coordinates.
C18_MalformedSkipped ==
    /\ s1.err # "ValueError"
    /\ \A q \in DbProcs : red[q].err # "ValueError"
    /\ s1.pc = "save_embeddings" => Range(s1.metadata) = WellFormedIds(db)
    /\ \A q \in DbProcs :
            red[q].pc = "update" =>
                {red[q].data[k].value_hash : k \in 1..Len(red[q].data)} =
                    {ValueHash(id) : id \in WellFormedIds(db)}
    /\ \A id \in DOMAIN db \ WellFormedIds(db) :
            \A c \in 1..5 : Coords(db[id])[c] = NULL

\* ------------------------------------------------------------------- C19
\* C19 (as claimed): nothing to extract is no failure. A run of
\* 01_extract_embeddings or umap-reduce whose query returns no record never
\* ends with status 1 for that reason, and a populate-umap-coordinates run
\* that fetched nothing has ended with its "already have UMAP coordinates"
\* message, no projection and no statement.
C19_NothingToDoIsSuccess ==
    /\ s1.pc = "failed" => s1.err # "NoEmbeddings"
    /\ \A q \in DbProcs : red[q].pc = "failed" => red[q].err # "NoEmbeddings"
    /\ \A p \in PopProcs :
            pop[p].pc = "nothing" =>
                /\ pop[p].out[Len(pop[p].out)] = "AllDone"
                /\ pop[p].coords_2d = <<>>
                /\ pop[p].txn = <<>>

\* ------------------------------------------------------------------- C20
\* C20 (as claimed): whenever a schema guard has returned without error,
\* ensure_umap_columns of 03_update_database or add_umap_columns of
\* umap-reduce, the table has all five coordinate columns, whichever of
\* them it had before.
C20_AllFiveAfterGuard ==
    /\ \A q \in DbProcs : s3[q].pc = "ensured" => CoordColSet \subseteq cols
    /\ \A q \in DbProcs :
            (red[q].pc = "schema_done" /\ red[q].err = "none") =>
                CoordColSet \subseteq cols

\* ------------------------------------------------------------------- C21
\* The value row holds in column CoordCols[k].
ColumnValue(row, k) == Coords(row)[k]

\* C21: schema evolution is additive. In every step of either schema guard
\* the table keeps every column it had, keeps every record and every stored
\* value (vector and coordinates) of every record, and a column the step
\* adds is NULL in every record.
C21_SchemaAdditive ==
    [][/\ cols \subseteq cols'
       /\ cols' \subseteq CoordColSet
       /\ DOMAIN db' = DOMAIN db
       /\ \A id \in DOMAIN db :
            /\ db'[id].embedding_small = db[id].embedding_small
            /\ \A k \in 1..5 :
                /\ CoordCols[k] \in cols =>
                        ColumnValue(db'[id], k) = ColumnValue(db[id], k)
                /\ CoordCols[k] \in cols' \ cols =>
                        ColumnValue(db'[id], k) = NULL]_vars

\* Both guards have returned on a table that had records with coordinates
\* in some of the columns and lacked others, which now exist.
C21_Witness ==
    /\ s3[1].pc = "ensured"
    /\ s3[1].existing # CoordColSet
    /\ red[2].pc = "schema_done"
    /\ red[2].columns_to_add # <<>>
    /\ cols = CoordColSet
    /\ \E id \in DOMAIN db :
            /\ db[id].umap_x_3d = OLD
            /\ db[id].umap_y_2d = NULL

\* ------------------------------------------------------------------- C22
\* C22: verification never mutates. Every step in which a verification tool
\* runs (verify_population, verify_updates, verify_update, check_db_final,
\* verify_db), and the step of a populate run in which verify_population
\* runs, leaves the schema and every row as they were, whatever the tool
\* finds and also when its printing raises.
C22_VerificationReadOnly ==
    [][((audit' # audit) \/
        (\E p \in PopProcs : pop'[p].stats # pop[p].stats /\ pop'[p].stats # <<>>))
            => (db' = db /\ cols' = cols)]_vars

\* check_db_final has reported rows with NULL coordinates over a table that
\* holds a record with part of its coordinates, between two batches of a
\* populate run.
C22_Witness ==
    /\ audit.tool = "check_db_final"
    /\ audit.report.verdict = "WARNING"
    /\ \E id \in DOMAIN db :
            db[id].umap_x_2d # NULL /\ db[id].umap_z_3d = NULL
    /\ pop[1].pc = "updating"
    /\ pop[1].total_updated >= 1

\* ------------------------------------------------------------------- C23
\* A populate-umap-coordinates run has ended with its Success message after
\* it fetched every record of the table (none had coordinates when it
\* started).
FullRunDone(p) ==
    /\ pop[p].pc = "success"
    /\ Len(pop[p].ids) = CountRows(db)

\* C23: after one full run over N >= 1 records with vectors and without
\* coordinates, with no write failure, verification reports N of N. The
\* statistics verify_population printed in the run, and what check_db_final
\* and verify_db report on the table the run left, are N records, N with 2D
\* coordinates, N with 3D coordinates, no row with a NULL coordinate, and
\* no tool raises.
C23_FullRunVerified ==
    \A p \in PopProcs :
        FullRunDone(p) =>
            LET N == CountRows(db)
            IN  /\ N >= 1
                /\ pop[p].stats = [total |-> N, populated_2d |-> N,
                                   populated_3d |-> N, err |-> "none"]
                /\ CheckDbFinal(db) =
                        [total |-> N, with_2d |-> N, with_3d |-> N,
                         embed_count |-> N, nulls |-> 0,
                         verdict |-> "SUCCESS", err |-> "none"]
                /\ \A S \in Samples(db, VerifyDbLimit) :
                        VerifyDb(db, S) = [total |-> N, with_2d |-> N,
                                           with_3d |-> N, err |-> "none"]
                /\ VerifyUpdates(db).err = "none"
                /\ (audit.tool = "check_db_final" /\ audit.runs = 1
                        /\ audit.report.err = "none"
                        /\ audit.report.with_2d = N) =>
                            audit.report = CheckDbFinal(db)

\* The run went over NumIds records in more than one batch, and check_db_final,
\* run after it, printed its SUCCESS verdict.
C23_Witness ==
    /\ FullRunDone(1)
    /\ CountRows(db) = NumIds
    /\ NumIds > BATCH_SIZE
    /\ audit.tool = "check_db_final"
    /\ audit.report.verdict = "SUCCESS"

\* ------------------------------------------------------------------- C24
\* The rows with partial coordinate presence: at least one coordinate
\* column non-null and at least one null.
PartialRows(t) ==
    {id \in DOMAIN t :
        /\ \E k \in 1..5 : Coords(t[id])[k] = NULL
        /\ \E k \in 1..5 : Coords(t[id])[k] # NULL}

\* C24 (as claimed): in every run of check_db_final that gets as far as its
\* verdict, the number it reports as rows with NULL coordinates is the
\* number of rows with partial coordinate presence in the table it read.
C24_NullsArePartialRows ==
    [][(audit' # audit /\ audit'.tool = "check_db_final"
            /\ audit'.report.err = "none")
        => audit'.report.nulls = Cardinality(PartialRows(db))]_vars

\* ------------------------------------------------------------------- C25
\* The characters of a file: the strings written into it, one after another.
RECURSIVE Content(_)
Content(writes) ==
    IF writes = <<>> THEN <<>> ELSE Head(writes) \o Content(Tail(writes))

\* The pieces of text between the separators seps.
RECURSIVE Split(_, _)
Split(text, seps) ==
    IF \A i \in 1..Len(text) : text[i] \notin seps THEN <<text>>
    ELSE LET i == CHOOSE i \in 1..Len(text) :
                    /\ text[i] \in seps
                    /\ \A j \in 1..(i - 1) : text[j] \notin seps
         IN  <<SubSeq(text, 1, i - 1)>> \o Split(SubSeq(text, i + 1, Len(text)), seps)

\* The lines a reader of the file sees: a line feed or carriage return ends
\* a line, and the end of the last line does not start another.
FileLines(file) ==
    LET parts == Split(Content(file.rows), {LF, CR})
    IN  IF parts[Len(parts)] = <<>> THEN SubSeq(parts, 1, Len(parts) - 1) ELSE parts

TsvFields(line) == Split(line, {TAB})

\* C25 (as claimed): when umap-reduce has completed over N records, the 2D
\* file has N lines of two tab-separated floats, the 3D file N lines of
\* three, the metadata file the header line and N rows of four fields; line
\* i of each describes record i of the fetched data, which is in ascending
\* value_hash order.
C25_ExportAligned ==
    red[1].pc = "done" =>
        LET data == red[1].data
            N == Len(data)
            l2 == FileLines(tsv.embeddings_2d)
            l3 == FileLines(tsv.embeddings_3d)
            lm == FileLines(tsv.metadata)
        IN  /\ \A k \in 1..(N - 1) : data[k].value_hash < data[k + 1].value_hash
            /\ Len(l2) = N
            /\ Len(l3) = N
            /\ Len(lm) = N + 1
            /\ TsvFields(lm[1]) = << <<<<"value">>>>, <<<<"source_table">>>>,
                                    <<<<"source_column">>>>, <<<<"usage_count">>>> >>
            /\ \A k \in 1..N :
                /\ TsvFields(l2[k]) = << <<Format6(red[1].umap_2d[k][1])>>,
                                        <<Format6(red[1].umap_2d[k][2])>> >>
                /\ TsvFields(l3[k]) = << <<Format6(red[1].umap_3d[k][1])>>,
                                        <<Format6(red[1].umap_3d[k][2])>>,
                                        <<Format6(red[1].umap_3d[k][3])>> >>
                /\ Len(TsvFields(lm[k + 1])) = 4
                /\ TsvFields(lm[k + 1])[4] = <<FormatCount(data[k].usage_count)>>

\* ------------------------------------------------------------------- C26
\* The text with every tab, line feed and carriage return replaced by one
\* space.
Replaced(text) ==
    [i \in 1..Len(text) |-> IF text[i] \in {TAB, LF, CR} THEN SPACE ELSE text[i]]

\* C26 (as claimed): in the metadata file of a completed umap-reduce run
\* every data row is one line of exactly four tab-separated fields, the
\* first three being value, source_table and source_column of the record
\* with their tabs and line breaks replaced by spaces.
C26_MetadataSanitized ==
    red[1].pc = "done" =>
        \A k \in 1..Len(red[1].data) :
            LET row == tsv.metadata.rows[k + 1]
                line == SubSeq(row, 1, Len(row) - 1)
            IN  /\ row[Len(row)] = LF
                /\ \A i \in 1..Len(line) : line[i] \notin {LF, CR}
                /\ TsvFields(line) =
                        << Replaced(red[1].data[k].value),
                           Replaced(red[1].data[k].source_table),
                           Replaced(red[1].data[k].source_column),
                           <<FormatCount(red[1].data[k].usage_count)>> >>

\* ------------------------------------------------------------------- C27
\* The records whose coordinates a populate-umap-coordinates run computed,
\* in id order: with nothing left pending these are the records that were
\* pending before the first run, since a run writes no other record.
ComputedIds(t) == OrderById({id \in DOMAIN t : t[id].umap_x_2d \notin {NULL, OLD}})

\* The table an uninterrupted run leaves: the records that were pending
\* projected jointly, each holding its own row of the two projections.
UninterruptedCoords(t, k) ==
    LET ids == ComputedIds(t)
        matrix == [i \in 1..Len(ids) |-> t[ids[i]].embedding_small]
    IN  FitTransform(2, matrix)[k] \o FitTransform(3, matrix)[k]

\* C27 (as claimed): whenever populate-umap-coordinates has ended with its
\* Success message, also in a run that follows an interrupted one, every
\* record the runs have written holds the coordinates an uninterrupted
\* single run over the same store produces.
C27_ResumeEqualsUninterrupted ==
    \A p \in PopProcs :
        pop[p].pc = "success" =>
            \A k \in 1..Len(ComputedIds(db)) :
                Coords(db[ComputedIds(db)[k]]) = UninterruptedCoords(db, k)

\* ------------------------------------------------------------------- C28
\* A coordinate a projection produced (neither NULL nor a value from
\* before the runs).
Computed(v) == v # NULL /\ v # OLD

\* The row holds what one UPDATE of run p wrote: position j of that run's
\* fetch, with that run's 2D pair and that run's 3D triple.
WrittenBy(p, id) ==
    /\ pop[p].coords_2d # <<>>
    /\ \E j \in 1..Len(pop[p].ids) :
        /\ pop[p].ids[j] = id
        /\ Coords(db[id]) = pop[p].coords_2d[j] \o pop[p].coords_3d[j]

\* C28: with two populate-umap-coordinates runs at the same time, in every
\* committed state a row that holds any projected coordinate holds the five
\* values of one single UPDATE of one run: never the 2D pair of one run
\* with the 3D triple of the other, nor with a value from before the runs.
C28_RowFromOneUpdate ==
    \A id \in DOMAIN db :
        (\E k \in 1..5 : Computed(Coords(db[id])[k])) =>
            \E p \in DbProcs : WrittenBy(p, id)

\* Both runs ended with Success from different fetches, and a record sent
\* by both holds the row of the run that projected it alone.
C28_Witness ==
    /\ \A p \in DbProcs : pop[p].pc = "success" /\ pop[p].total_updated >= 1
    /\ pop[1].embeddings # pop[2].embeddings
    /\ \E id \in DOMAIN db :
        /\ \A p \in DbProcs : \E j \in 1..Len(pop[p].ids) : pop[p].ids[j] = id
        /\ \E p \in DbProcs : Len(pop[p].ids) = 1 /\ WrittenBy(p, id)

\* ------------------------------------------------------------------- C29
\* The loop of update_umap_coordinates of process q is over.
LoopOver(q) ==
    /\ s3[q].main
    /\ s3[q].pc \in {"update", "done", "failed"}
    /\ s3[q].metadata # <<>>
    /\ s3[q].idx = Len(s3[q].metadata)

\* C29 (as claimed): in the loop of 03_update_database every turn attempts
\* the next row, whether the UPDATE succeeds or fails, so that when the
\* loop is over updated + failed = total; and a step whose loop is over
\* with failed > 0 ends with status 0 unless the connection was lost.
C29_DegradedSuccess ==
    /\ [](\A q \in DbProcs :
            /\ LoopOver(q) => s3[q].updated + s3[q].failed = Len(s3[q].metadata)
            /\ (LoopOver(q) /\ s3[q].failed > 0 /\ s3[q].pc = "failed")
                    => s3[q].err = "ConnectionError")
    /\ [][\A q \in DbProcs :
            (s3[q].pc = "update" /\ s3'[q].idx # s3[q].idx) =>
                /\ s3'[q].idx = s3[q].idx + 1
                /\ s3'[q].updated + s3'[q].failed
                        = s3[q].updated + s3[q].failed + 1
                /\ s3'[q].pc = "update"]_vars

\* The counts and the order alone, which the loop keeps.
C29_CountsOnly ==
    \A q \in DbProcs :
        LoopOver(q) => s3[q].updated + s3[q].failed = Len(s3[q].metadata)

\* The one row of the run whose UPDATE failed was partial before the run,
\* every other row was updated, and the step ended with status 1.
C29_Scenario ==
    \E q \in DbProcs :
        /\ LoopOver(q) /\ s3[q].failed = 1 /\ s3[q].updated = NumIds - 1
        /\ s3[q].pc = "failed" /\ s3[q].err = "TypeError"
        /\ Cardinality({id \in DOMAIN db : \E k \in 1..5 : Coords(db[id])[k] = NULL}) = 1

\* ------------------------------------------------------------------- C30
\* The statements of a whole update_database loop of process q.
AllStatements(q) ==
    [k \in 1..Len(red[q].data) |->
        ReduceStatement(red[q].data, red[q].umap_2d, red[q].umap_3d, k)]

\* C30: in a run of umap-reduce the table changes in one step only, the
\* commit after the last row, which applies the UPDATE of every fetched
\* record at once; a run that ends in failure before that leaves every row
\* as it was and drops its statements, and no step of a run, failing or
\* not, takes away a column: the additions committed by add_umap_columns
\* remain.
C30_AllOrNothing ==
    [][\A q \in DbProcs :
        red'[q] # red[q] =>
            /\ cols \subseteq cols'
            /\ db' # db =>
                /\ red[q].pc = "update" /\ red'[q].pc = "export_open"
                /\ red[q].idx = Len(red[q].data)
                /\ db' = ApplyHashStatements(db, AllStatements(q))
            /\ red'[q].pc = "failed" =>
                /\ db' = db
                /\ red'[q].txn = <<>>]_vars

\* A run added the five columns, queued the UPDATE of at least one record
\* and then failed before its commit: the columns are there and no record
\* has a coordinate.
C30_Witness ==
    \E q \in DbProcs :
        /\ red[q].pc = "failed" /\ red[q].runs = 1
        /\ red[q].idx >= 1 /\ red[q].idx < Len(red[q].data)
        /\ cols = CoordColSet
        /\ \A id \in DOMAIN db : Coords(db[id]) = [c \in 1..5 |-> NULL]
        /\ \A id \in DOMAIN db : db[id].embedding_small # NULL

\* ------------------------------------------------------------------- C31
\* The last message a run printed.
LastOut(out) == IF out = <<>> THEN "none" ELSE out[Len(out)]

\* The vectors umap-reduce fetched for process q.
FetchedVectors(q) == [k \in 1..Len(red[q].data) |-> red[q].data[k].embedding]

\* C31: a projection that raises ends the run. In populate-umap-coordinates
\* and in umap-reduce no step of a run up to and including the projection
\* changes a row, a projection over vectors that do not stack always
\* fails, the failing step prints the error and ends the run with status
\* 1, and an ended run does nothing more until the program is started
\* again; under run_pipeline a failing step 02 changes neither rows nor
\* schema, and the pipeline ends with status 1 without starting step 03.
C31_ProjectionFailureFatal ==
    /\ [][/\ \A p \in PopProcs :
              /\ (pop[p].pc \in {"connected", "fetched"} /\ pop'[p] # pop[p])
                    => db' = db
              /\ (pop[p].pc = "fetched" /\ pop'[p].pc = "failed")
                    => /\ pop'[p].txn = <<>>
                       /\ pop'[p].total_updated = 0
                       /\ LastOut(pop'[p].out) = "Error"
              /\ (pop[p].pc = "failed" /\ pop'[p] # pop[p])
                    => pop'[p].runs = pop[p].runs + 1
          /\ \A q \in DbProcs :
              /\ (red[q].pc \in {"schema_check", "schema_alter", "fetch", "umap"}
                    /\ red'[q] # red[q]) => db' = db
              /\ (red[q].pc = "umap" /\ red'[q] # red[q]
                    /\ ~Stackable(FetchedVectors(q)))
                    => red'[q].pc = "failed"
              /\ (red[q].pc = "umap" /\ red'[q].pc = "failed")
                    => /\ red'[q].txn = <<>>
                       /\ LastOut(red'[q].out) = "Error"
              /\ (red[q].pc = "failed" /\ red'[q] # red[q])
                    => red'[q].runs = red[q].runs + 1
          /\ s2' # s2 => db' = db /\ cols' = cols
          /\ (pipe.pc = "failed" /\ pipe' # pipe)
                => pipe'.runs = pipe.runs + 1]_vars
    /\ [](pipe.pc \in {"returned", "failed"} /\ Len(pipe.returned) = 2
            /\ ~pipe.returned[2]
          => /\ pipe.started = <<1, 2>>
             /\ s3[1].pc \in S3Terminal
             /\ pipe.pc = "failed" => PipeExitStatus(pipe.pc) = 1)

\* A run of populate-umap-coordinates ended in its projection, after the
\* fetch and before any UPDATE, and a pipeline run ended at its failing
\* step 02, with every record as it was before the two runs.
C31_Witness ==
    /\ pop[1].pc = "failed" /\ pop[1].embeddings # <<>>
    /\ pop[1].coords_2d = <<>> /\ pop[1].total_updated = 0
    /\ pipe.pc = "failed" /\ pipe.started = <<1, 2>> /\ s2.pc = "failed"
    /\ \A id \in DOMAIN db : \A k \in 1..5 : Coords(db[id])[k] \in {NULL, OLD}

\* ------------------------------------------------------------------- C32
\* C32: no step of any script, succeeding or failing, takes a coordinate
\* away: a coordinate column of a record that holds a value holds a value
\* after the step, and no record is removed.
C32_CoordinatesNeverCleared ==
    [][/\ DOMAIN db \subseteq DOMAIN db'
       /\ \A id \in DOMAIN db : \A k \in 1..5 :
            Coords(db[id])[k] # NULL => Coords(db'[id])[k] # NULL]_vars

\* umap-reduce has replaced the earlier coordinates of a record (every
\* record now holds projected values) and a run of another writer failed.
C32_Witness ==
    /\ red[1].pc = "done"
    /\ \A id \in DOMAIN db : \A k \in 1..5 : Computed(Coords(db[id])[k])
    /\ \/ pop[1].pc = "failed"
       \/ s3[1].pc = "failed"
       \/ s1.pc = "failed"

\* ------------------------------------------------------------------- C33
\* The records whose key is in the batch a writer's step sends or commits:
\* the ids of populate's open transaction, the id of step 03's current
\* row, the records with a value_hash of umap-reduce's open transaction.
BatchKeys ==
    UNION {{pop[p].txn[i][1] : i \in 1..Len(pop[p].txn)} : p \in PopProcs}
    \cup UNION {IF s3[q].pc = "update" /\ s3[q].idx < Len(s3[q].metadata)
                THEN {s3[q].metadata[s3[q].idx + 1]} ELSE {} : q \in DbProcs}
    \cup {id \in DOMAIN db :
            \E q \in DbProcs : \E i \in 1..Len(red[q].txn) :
                red[q].txn[i][1] = ValueHash(id)}

\* C33: a step that writes coordinates changes nothing but the five
\* coordinate columns of the records whose key is in its batch: the
\* vector of every record, its value, provenance tags and usage_count, and
\* every column of a record outside the batch, stay as they were.
C33_WriteFrame ==
    [][/\ meta' = meta
       /\ DOMAIN db' = DOMAIN db
       /\ \A id \in DOMAIN db :
            /\ db'[id].embedding_small = db[id].embedding_small
            /\ db'[id] # db[id] => id \in BatchKeys]_vars

\* populate-umap-coordinates has committed its first batch: the records of
\* the batch hold projected values, the last pending record still has none.
C33_Witness ==
    /\ pop[1].pc = "updating" /\ pop[1].i = BATCH_SIZE
    /\ pop[1].total_updated = BATCH_SIZE /\ Len(pop[1].ids) = NumIds
    /\ \A k \in 1..BATCH_SIZE : Computed(db[pop[1].ids[k]].umap_x_2d)
    /\ Coords(db[pop[1].ids[NumIds]]) = [k \in 1..5 |-> NULL]

\* ------------------------------------------------------------------- C34
\* C34 (as claimed): what update_umap_coordinates adds to total_updated
\* for a batch is the number of rows of the table whose coordinates the
\* batch's commit set, so that the value it returns is the number of rows
\* it updated, also when an id of the batch matches no row any more.
C34_ReturnsRowsUpdated ==
    [][\A p \in PopProcs :
        pop'[p].total_updated > pop[p].total_updated =>
            pop'[p].total_updated - pop[p].total_updated
                = Cardinality({id \in DOMAIN db : db'[id] # db[id]})]_vars

\* ------------------------------------------------------------------- C35
\* No record lacks a coordinate.
NoneLacking == \A id \in DOMAIN db : \A k \in 1..5 : Coords(db[id])[k] # NULL

\* C35 (as claimed): when populate-umap-coordinates is invoked again and
\* again and its failures stop, from some moment on no record lacks a
\* coordinate; and once none does, a run fetches no record, queues no
\* UPDATE and leaves the table as it is.
C35_EventuallyComplete ==
    /\ <>[]NoneLacking
    /\ [][NoneLacking =>
            /\ db' = db
            /\ \A p \in PopProcs :
                /\ pop'[p].txn = <<>>
                /\ pop[p].pc = "connected" => pop'[p].pc \in {"nothing", "failed"}]_vars

\* The same with "lacks coordinates" read as the fetch reads it: the 2D x
\* coordinate is NULL.
C35_EventuallyNonePending ==
    <>[](\A id \in DOMAIN db : db[id].umap_x_2d # NULL)

\* ------------------------------------------------------------------- C36
\* The three input files of step 03 are there and have the same number of
\* rows.
Step3InputsFit ==
    /\ files.metadata_csv.exists
    /\ files.umap_2d_npy.exists
    /\ files.umap_3d_npy.exists
    /\ Len(files.metadata_csv.rows) = Len(files.umap_2d_npy.rows)
    /\ Len(files.umap_2d_npy.rows) = Len(files.umap_3d_npy.rows)

\* C36: 02_reduce_with_umap started without embeddings_1536d.npy ends at
\* once with status 1 and writes no file; 03_update_database started
\* without one of its three files, or with files of different lengths,
\* ends at once with status 1 before any query; neither changes the schema
\* or a row, and an ended run does nothing more.
C36_MissingInputsNoEffect ==
    [][/\ (s2'.runs # s2.runs /\ ~files.embeddings_npy.exists)
            => /\ s2'.pc = "failed"
               /\ files' = files /\ db' = db /\ cols' = cols
       /\ (s2.pc = "failed" /\ s2' # s2) => s2'.runs = s2.runs + 1
       /\ \A q \in DbProcs :
            /\ (s3'[q].runs # s3[q].runs /\ s3'[q].main /\ ~Step3InputsFit)
                => /\ s3'[q].pc = "failed"
                   /\ s3'[q].err \in {"FilesNotFound", "ShapeMismatch"}
                   /\ s3'[q].k = 0 /\ s3'[q].idx = 0
                   /\ files' = files /\ db' = db /\ cols' = cols
            /\ (s3[q].pc = "failed" /\ s3'[q] # s3[q])
                => s3'[q].runs = s3[q].runs + 1]_vars

\* Step 03 was started on a metadata.csv and a umap_2d.npy of different
\* lengths and ended before its first query.
C36_Witness ==
    /\ s3[1].pc = "failed" /\ s3[1].err = "ShapeMismatch"
    /\ s3[1].k = 0 /\ s3[1].updated = 0
    /\ files.metadata_csv.exists /\ files.umap_2d_npy.exists
    /\ Len(files.metadata_csv.rows) # Len(files.umap_2d_npy.rows)

====
